---- MODULE Spec2Model ----
(***************************************************************************)
(* Google Charging Policy Manager (google_cpm.c): the charger selection    *)
(* policy, the source registry, the DC session state machine and the PPS   *)
(* negotiation task, as a state machine.                                   *)
(*                                                                         *)
(* Every handler runs with chg_psy_lock held from its first to its last    *)
(* statement, so one handler is one atomic action.  Collaborator calls     *)
(* (set-property on a charger, the charger-mode vote, the PPS library) are *)
(* inputs of the action: a set F of calls that fail in this step, and the  *)
(* outcomes of the PPS library calls.                                      *)
(***************************************************************************)
EXTENDS Integers, Sequences, FiniteSets, TLC

VARIABLES
    \* struct gcpm_drv
    chg_psy_avail,      \* [index -> BOOLEAN]: chg_psy_avail[i] != NULL
    chg_psy_active,     \* -1 or the index of the active charger
    chg_psy_count,
    force_active,
    tcpm_pps_data,      \* [pps_psy: BOOLEAN, stage: PpsStages]
    wlc_pps_data,
    out_ua, out_uv,
    pps_index, dc_index, dc_state,
    taper_control,
    dc_limit,           \* [vbatt_low, vbatt_min, vbatt_high, vbatt_max, demand]
    cc_max, fv_uv,
    init_complete, resume_complete, dc_init_complete, new_dc_limit,
    chg_psy_retries, log_psy_ratelimit,
    tcpm_phandle, tcpm_psy,     \* BOOLEAN: configured, found
    wlc_dc_name, wlc_dc_psy,    \* BOOLEAN: configured, found
    \* collaborators
    psy_online,         \* [index -> BOOLEAN]: the charger's ONLINE property
    dc_vote,            \* the "GCPM" vote for GBMS_CHGR_MODE_CHGR_DC
    select_work, pps_work, init_work,
    \* delayed works: -1 when idle, 0 when due, else the delay in milliseconds
    \* it was queued with
    \* elap: get_boot_sec() - dc_start_time, in seconds
    elap,
    \* the negotiation task has been taken off its timer and waits for
    \* chg_psy_lock
    pps_run,
    \* what the task that has just run did: its name, the branch it took and
    \* the collaborator calls that failed in it
    last,
    \* last evaluation of gcpm_chg_select by the selection harness
    sel,
    \* the call or notification the driver handled last, recorded by the
    \* event harness
    ev,
    \* the number of writes to the debug attributes so far
    debug_writes,
    \* chg_psy_lock: the task that holds the mutex, "none" when it is free
    chg_psy_lock,
    \* where each task that takes chg_psy_lock is: "idle", "lock" (blocked in
    \* mutex_lock) or "cs" (between mutex_lock and its exit path)
    pc,
    \* max77779_sp.c: the scratch-space device and the calls under way,
    \*   page_lock: the caller that holds the mutex, 0 when it is free
    \*   page_ctrl: the value of the MAX77779_SP_PAGE_CTRL register
    \*   page_by: the caller whose regmap_write set page_ctrl last
    \*   call: per caller, where its call is and what it has done
    sp

vars == <<chg_psy_avail, chg_psy_active, chg_psy_count, force_active,
          tcpm_pps_data, wlc_pps_data, out_ua, out_uv, pps_index, dc_index,
          dc_state, taper_control, dc_limit, cc_max, fv_uv, init_complete,
          resume_complete, dc_init_complete, new_dc_limit, psy_online,
          dc_vote,
          select_work, pps_work, pps_run, elap, last, sel, ev,
          chg_psy_retries, log_psy_ratelimit, tcpm_phandle, tcpm_psy,
          wlc_dc_name, wlc_dc_psy, init_work, debug_writes,
         chg_psy_lock, pc, sp>>

\* the fields only gcpm_init_work() writes, besides the flags
lock_vars == <<chg_psy_lock, pc, sp>>

boot_vars == <<chg_psy_retries, log_psy_ratelimit, tcpm_phandle, tcpm_psy,
               wlc_dc_name, wlc_dc_psy>>

\* the configuration, fixed once start-up is complete
static_vars == <<chg_psy_avail, chg_psy_count, force_active, dc_limit,
                 init_complete, resume_complete, dc_init_complete, sel,
                 boot_vars, debug_writes, lock_vars>>

\* what the tasks and handlers of the running controller leave alone
config_vars == <<static_vars, ev, init_work>>

----------------------------------------------------------------------------
\* Program constants

GCPM_DEFAULT_CHARGER == 0
GCPM_INDEX_DC_ENABLE == 1
GCPM_MAX_CHARGERS == 4

GCPM_DEFAULT_DC_LIMIT_DEMAND == 0
GCPM_DEFAULT_DC_LIMIT_VBATT_MIN == 3600000
GCPM_DEFAULT_DC_LIMIT_DELTA_LOW == 200000
GCPM_DEFAULT_DC_LIMIT_VBATT_MAX == 4400000
GCPM_DEFAULT_DC_LIMIT_DELTA_HIGH == 50000

\* enum gcpm_dc_state_t
DC_DISABLED == -1
DC_IDLE == 0
DC_ENABLE == 1
DC_RUNNING == 2
DC_ENABLE_PASSTHROUGH == 3
DC_PASSTHROUGH == 4

DC_ENABLE_DELAY_MS == 5000
DC_RUN_DELAY_MS == 9000
PPS_PROG_TIMEOUT_S == 10
PPS_PROG_RETRY_MS == 5000
PPS_ACTIVE_RETRY_MS == 1500
PPS_ACTIVE_TIMEOUT_S == 25
PPS_ERROR_RETRY_MS == 1000

INIT_DELAY_MS == 100
INIT_RETRY_DELAY_MS == 1000
LOG_PSY_RATELIMIT_CNT == 200
\* chg_psy_retries as google_cpm_probe() sets it
CHG_PSY_RETRIES == 10
DC_ERROR_RETRY_MS == PPS_ERROR_RETRY_MS

PPS_INDEX_TCPM == 1
PPS_INDEX_WLC == 2
PPS_INDEX_MAX == 2

\* errno values returned by the handlers
EIO == 5
EAGAIN == 11
EBUSY == 16
ENODEV == 19
EINVAL == 22
ERANGE == 34
ENOENT == 2

\* max77779_sp.c: addresses and lengths of the tags
RSBM_ADDR == 0
RSBR_ADDR == 4
SUFG_ADDR == 8
RS_TAG_LENGTH == 4
SU_TAG_LENGTH == 1
OPCODE_USER_SPACE_R_RES_LEN == 32

\* stages of a PPS session (enum pd_pps_stage)
PpsStages == {"NOTSUPP", "DISABLED", "NONE", "AVAILABLE", "ACTIVE"}

----------------------------------------------------------------------------
\* Bounds of the model

\* the callers of the scratch-space interface, the tags and sizes they
\* pass ("OTHER": a tag the device does not hold)
SpCallers == {1, 2}
SpTags == {"RS32", "RSBM", "RSBR", "SUFG", "OTHER"}
SpSizes == {0, 1, 2, 4, 5, 33}

\* no call of the scratch-space interface is under way
SpNoCall ==
    [pc |-> "idle", op |-> "", tag |-> "", size |-> 0, addr |-> 0,
     ret |-> 0, regs |-> 0, torn |-> FALSE]

SpIdle ==
    [page_lock |-> 0, page_ctrl |-> 0, page_by |-> 0,
     call |-> [c \in SpCallers |-> SpNoCall]]

\* the tasks that take chg_psy_lock
LockTasks ==
    {"select_work", "pps_work", "init_work", "set_property", "get_property"}

\* the most collaborator calls that fail within one handler run
MaxFaults == 1

\* the most writes to the debug attributes in one run of the model
MaxDebugWrites == 1

\* the most runs of the start-up task before start-up completes
MaxInitRuns == 2

----------------------------------------------------------------------------
\* Selection policy

\* u32 subtraction a - b compared with a limit: when it wraps the result is
\* above every limit the model uses, so it is clamped to the limit
U32SubClamp(a, b, limit) ==
    IF a < b THEN limit ELSE IF a - b > limit THEN limit ELSE a - b

\* thresholds set by google_cpm_probe from the device tree (a negative
\* argument: the property is absent)
ProbeLimits(vmin_dt, vlow_dt, vmax_dt, vhigh_dt, demand_dt) ==
    LET vmin == IF vmin_dt < 0 THEN GCPM_DEFAULT_DC_LIMIT_VBATT_MIN
                ELSE vmin_dt
        vmax == IF vmax_dt < 0 THEN GCPM_DEFAULT_DC_LIMIT_VBATT_MAX
                ELSE vmax_dt
    IN [vbatt_min |-> vmin,
        vbatt_low |-> IF vlow_dt < 0
                      THEN U32SubClamp(vmin, GCPM_DEFAULT_DC_LIMIT_DELTA_LOW,
                                       vmin)
                      ELSE IF vlow_dt > vmin THEN vmin ELSE vlow_dt,
        vbatt_max |-> vmax,
        vbatt_high |-> IF vhigh_dt < 0
                       THEN U32SubClamp(vmax, GCPM_DEFAULT_DC_LIMIT_DELTA_HIGH,
                                        vmax)
                       ELSE IF vhigh_dt > vmax THEN vmax ELSE vhigh_dt,
        demand |-> IF demand_dt < 0 THEN GCPM_DEFAULT_DC_LIMIT_DEMAND
                   ELSE demand_dt]

DefaultLimits == ProbeLimits(-1, -1, -1, -1, -1)

gcpm_chg_get_default == chg_psy_avail[GCPM_DEFAULT_CHARGER]

\* integer division of C: it truncates toward zero
CDiv(a, b) == IF a >= 0 THEN a \div b ELSE -((-a) \div b)

\* variant: the demand as a sum
batt_demand_sum(cc, fv) == CDiv(cc, 1000) + CDiv(fv, 1000)

\* the battery demand computed from the charging tier
batt_demand_of(cc, fv) == CDiv(cc, 1000) * CDiv(fv, 1000)

\* variant: no hysteresis below vbatt_min
gcpm_chg_select_limits_nofloor(vbatt, index) ==
    IF dc_limit.vbatt_min # 0 /\ vbatt < dc_limit.vbatt_min THEN -EAGAIN
    ELSE IF dc_limit.vbatt_high # 0 /\ vbatt > dc_limit.vbatt_high
    THEN dc_index
    ELSE IF dc_limit.vbatt_max # 0 /\ vbatt > dc_limit.vbatt_max
    THEN GCPM_DEFAULT_CHARGER
    ELSE IF dc_limit.vbatt_min # 0 /\ vbatt > dc_limit.vbatt_min
    THEN GCPM_INDEX_DC_ENABLE
    ELSE index

\* variant: no hysteresis above vbatt_high
gcpm_chg_select_limits_noceil(vbatt, index) ==
    IF dc_limit.vbatt_min # 0 /\ vbatt < dc_limit.vbatt_min
    THEN (IF dc_index = GCPM_DEFAULT_CHARGER THEN -EAGAIN ELSE dc_index)
    ELSE IF dc_limit.vbatt_high # 0 /\ vbatt > dc_limit.vbatt_high
    THEN GCPM_DEFAULT_CHARGER
    ELSE IF dc_limit.vbatt_min # 0 /\ vbatt > dc_limit.vbatt_min
    THEN GCPM_INDEX_DC_ENABLE
    ELSE index

\* variant: a voltage no rule applies to selects the default index
gcpm_chg_select_limits_default(vbatt, index) ==
    IF dc_limit.vbatt_min # 0 /\ vbatt < dc_limit.vbatt_min
    THEN (IF dc_index = GCPM_DEFAULT_CHARGER THEN -EAGAIN ELSE dc_index)
    ELSE IF dc_limit.vbatt_high # 0 /\ vbatt > dc_limit.vbatt_high
    THEN dc_index
    ELSE IF dc_limit.vbatt_max # 0 /\ vbatt > dc_limit.vbatt_max
    THEN GCPM_DEFAULT_CHARGER
    ELSE IF dc_limit.vbatt_min # 0 /\ vbatt > dc_limit.vbatt_min
    THEN GCPM_INDEX_DC_ENABLE
    ELSE GCPM_DEFAULT_CHARGER

\* the index chosen once the demand and the voltage limits have been looked at
gcpm_chg_select_limits(vbatt, index) ==
    LET vbatt_min == dc_limit.vbatt_min
        vbatt_max == dc_limit.vbatt_max
        vbatt_high == dc_limit.vbatt_high
    IN IF vbatt_min # 0 /\ vbatt < vbatt_min
       THEN (IF dc_index = GCPM_DEFAULT_CHARGER THEN -EAGAIN ELSE dc_index)
       ELSE IF vbatt_high # 0 /\ vbatt > vbatt_high THEN dc_index
       ELSE IF vbatt_max # 0 /\ vbatt > vbatt_max THEN GCPM_DEFAULT_CHARGER
       ELSE IF vbatt_min # 0 /\ vbatt > vbatt_min THEN GCPM_INDEX_DC_ENABLE
       ELSE index

\* the final range check of the chosen index
gcpm_chg_select_bound(index) ==
    IF index >= chg_psy_count THEN GCPM_DEFAULT_CHARGER ELSE index

\* variant: the selection also looks at taper_control
gcpm_chg_select_taper(vbatt) ==
    IF taper_control THEN GCPM_DEFAULT_CHARGER
    ELSE IF force_active >= 0 THEN force_active
    ELSE IF cc_max <= 0 \/ fv_uv <= 0 THEN GCPM_DEFAULT_CHARGER
    ELSE gcpm_chg_select_bound(GCPM_INDEX_DC_ENABLE)

\* variant: the selection does not look at the sign of the demand
gcpm_chg_select_nodemand(vbatt) ==
    IF force_active >= 0 THEN force_active
    ELSE
      LET batt_demand == batt_demand_of(cc_max, fv_uv)
          index == IF batt_demand > dc_limit.demand
                   THEN GCPM_INDEX_DC_ENABLE ELSE GCPM_DEFAULT_CHARGER
      IN IF gcpm_chg_get_default
            /\ (dc_limit.vbatt_max # 0 \/ dc_limit.vbatt_min # 0)
         THEN IF vbatt < 0 THEN dc_index
              ELSE IF dc_limit.vbatt_low # 0 /\ vbatt < dc_limit.vbatt_low
                   THEN -EAGAIN
              ELSE gcpm_chg_select_bound(gcpm_chg_select_limits(vbatt, index))
         ELSE gcpm_chg_select_bound(index)

\* variant: no retry below vbatt_low
gcpm_chg_select_nolow(vbatt) ==
    IF force_active >= 0 THEN force_active
    ELSE IF cc_max <= 0 \/ fv_uv <= 0 THEN GCPM_DEFAULT_CHARGER
    ELSE
      LET batt_demand == batt_demand_of(cc_max, fv_uv)
          index == IF batt_demand > dc_limit.demand
                   THEN GCPM_INDEX_DC_ENABLE ELSE GCPM_DEFAULT_CHARGER
      IN IF gcpm_chg_get_default
            /\ (dc_limit.vbatt_max # 0 \/ dc_limit.vbatt_min # 0)
         THEN IF vbatt < 0 THEN dc_index
              ELSE gcpm_chg_select_bound(gcpm_chg_select_limits(vbatt, index))
         ELSE gcpm_chg_select_bound(index)

\* variant: a failed read of the battery voltage selects the default index
gcpm_chg_select_noread(vbatt) ==
    IF force_active >= 0 THEN force_active
    ELSE IF cc_max <= 0 \/ fv_uv <= 0 THEN GCPM_DEFAULT_CHARGER
    ELSE
      LET batt_demand == batt_demand_of(cc_max, fv_uv)
          index == IF batt_demand > dc_limit.demand
                   THEN GCPM_INDEX_DC_ENABLE ELSE GCPM_DEFAULT_CHARGER
      IN IF gcpm_chg_get_default
            /\ (dc_limit.vbatt_max # 0 \/ dc_limit.vbatt_min # 0)
         THEN IF vbatt < 0 THEN GCPM_DEFAULT_CHARGER
              ELSE IF dc_limit.vbatt_low # 0 /\ vbatt < dc_limit.vbatt_low
                   THEN -EAGAIN
              ELSE gcpm_chg_select_bound(gcpm_chg_select_limits(vbatt, index))
         ELSE gcpm_chg_select_bound(index)

\* gcpm_chg_select(gcpm); vbatt is what reading VOLTAGE_NOW from the default
\* charger returns in this call (negative: the read failed)
gcpm_chg_select(vbatt) ==
    IF force_active >= 0 THEN force_active
    ELSE IF cc_max <= 0 \/ fv_uv <= 0 THEN GCPM_DEFAULT_CHARGER
    ELSE
      LET batt_demand == batt_demand_of(cc_max, fv_uv)
          index == IF batt_demand > dc_limit.demand
                   THEN GCPM_INDEX_DC_ENABLE ELSE GCPM_DEFAULT_CHARGER
      IN IF gcpm_chg_get_default
            /\ (dc_limit.vbatt_max # 0 \/ dc_limit.vbatt_min # 0)
         THEN IF vbatt < 0 THEN dc_index
              ELSE IF dc_limit.vbatt_low # 0 /\ vbatt < dc_limit.vbatt_low
                   THEN -EAGAIN
              ELSE gcpm_chg_select_bound(gcpm_chg_select_limits(vbatt, index))
         ELSE gcpm_chg_select_bound(index)

----------------------------------------------------------------------------
\* Source registry.  The helpers below work on a record g holding the part
\* of the state one handler run reads and writes:
\*   active, online, vote, dc_state, dc_index, pps_index, tcpm, wlc, out_ua,
\*   out_uv: the fields of the same name
\*   calls: the collaborator calls made so far, <<property, index, value, ok>>
\*   ret: the value the helper returns

\* collaborator calls that can fail in a handler run
FaultPoints ==
    {"CHARGING_DISABLE", "ONLINE_0", "ONLINE_1", "FV", "CC", "IIN", "VOTE",
     "PPS_OFFLINE"}

Gcpm ==
    [active |-> chg_psy_active, online |-> psy_online, vote |-> dc_vote,
     dc_state |-> dc_state, dc_index |-> dc_index, pps_index |-> pps_index,
     tcpm |-> tcpm_pps_data, wlc |-> wlc_pps_data,
     out_ua |-> out_ua, out_uv |-> out_uv,
     calls |-> <<>>, ret |-> 0]

\* GPSY_SET_PROP(chg_psy_avail[index], prop, val): the call is recorded; it
\* fails when its fault point is in F, and a failed call changes nothing
GPSY_SET_PROP(g, prop, index, val, ok) ==
    [g EXCEPT !.calls = Append(@, <<prop, index, val, ok>>),
              !.ret = IF ok THEN 0 ELSE -EIO]

gcpm_chg_get_active(g) ==
    IF g.active = -1 THEN FALSE ELSE chg_psy_avail[g.active]

gcpm_chg_ping(g, index, F) ==
    IF ~chg_psy_avail[index] THEN [g EXCEPT !.ret = 0]
    ELSE LET ok == "ONLINE_0" \notin F
             g1 == GPSY_SET_PROP(g, "ONLINE", index, 0, ok)
         IN [g1 EXCEPT !.online[index] = IF ok THEN FALSE ELSE @,
                       !.ret = 0]

\* variant: a source taken offline stays the active source
gcpm_chg_offline_keep(g, F) ==
    IF ~gcpm_chg_get_active(g) THEN [g EXCEPT !.ret = 0]
    ELSE
      LET g1 == GPSY_SET_PROP(g, "CHARGING_ENABLED", g.active, 0,
                              "CHARGING_DISABLE" \notin F)
      IN IF g1.ret # 0 THEN g1
         ELSE LET g2 == GPSY_SET_PROP(g1, "ONLINE", g.active, 0,
                                      "ONLINE_0" \notin F)
              IN IF g2.ret # 0 THEN g2
                 ELSE [g2 EXCEPT !.online[g.active] = FALSE]

gcpm_chg_offline(g, F) ==
    IF ~gcpm_chg_get_active(g) THEN [g EXCEPT !.ret = 0]
    ELSE
      LET g1 == GPSY_SET_PROP(g, "CHARGING_ENABLED", g.active, 0,
                              "CHARGING_DISABLE" \notin F)
      IN IF g1.ret # 0 THEN g1
         ELSE LET g2 == GPSY_SET_PROP(g1, "ONLINE", g.active, 0,
                                      "ONLINE_0" \notin F)
              IN IF g2.ret # 0 THEN g2
                 ELSE [g2 EXCEPT !.online[g.active] = FALSE, !.active = -1]

\* variant: the requested source is put online without taking the active
\* one offline
gcpm_chg_set_online_keep(g, index, F) ==
    IF index < 0 \/ index >= chg_psy_count THEN [g EXCEPT !.ret = -ERANGE]
    ELSE IF index = g.active THEN [g EXCEPT !.ret = 0]
    ELSE IF ~chg_psy_avail[index] THEN [g EXCEPT !.ret = -EINVAL]
    ELSE LET g2 == GPSY_SET_PROP(g, "ONLINE", index, 1, "ONLINE_1" \notin F)
         IN IF g2.ret < 0 THEN g2
            ELSE [g2 EXCEPT !.online[index] = TRUE, !.active = index]

gcpm_chg_set_online(g, index, F) ==
    IF index < 0 \/ index >= chg_psy_count THEN [g EXCEPT !.ret = -ERANGE]
    ELSE IF index = g.active THEN [g EXCEPT !.ret = 0]
    ELSE IF ~chg_psy_avail[index] THEN [g EXCEPT !.ret = -EINVAL]
    ELSE
      LET g1 == gcpm_chg_offline(g, F)
      IN IF g1.ret < 0 THEN [g1 EXCEPT !.ret = -EIO]
         ELSE LET g2 == GPSY_SET_PROP(g1, "ONLINE", index, 1,
                                      "ONLINE_1" \notin F)
              IN IF g2.ret < 0 THEN g2
                 ELSE [g2 EXCEPT !.online[index] = TRUE, !.active = index]

\* gvotable_cast_vote(gbms_mode, "GCPM", GBMS_CHGR_MODE_CHGR_DC, enabled)
gcpm_dc_enable(g, enabled, F) ==
    LET ok == "VOTE" \notin F
    IN [g EXCEPT !.calls = Append(@, <<"MODE_VOTE", -1,
                                       IF enabled THEN 1 ELSE 0, ok>>),
                 !.vote = IF ok THEN enabled ELSE @,
                 !.ret = IF ok THEN 0 ELSE -ENODEV]

\* variant: the DC vote is left as it is
gcpm_dc_stop_novote(g, final_state, F) ==
    LET g1 == IF g.dc_state \in {DC_RUNNING, DC_PASSTHROUGH}
              THEN [g EXCEPT !.dc_state = DC_ENABLE, !.ret = 0]
              ELSE [g EXCEPT !.ret = 0]
        g2 == IF g1.dc_state \in {DC_ENABLE, DC_ENABLE_PASSTHROUGH}
              THEN gcpm_chg_set_online(g1, GCPM_DEFAULT_CHARGER, F)
              ELSE [g1 EXCEPT !.ret = 0]
    IN IF g2.ret < 0 THEN g2
       ELSE [g2 EXCEPT !.dc_state = final_state, !.ret = 0]

gcpm_dc_stop(g, final_state, F) ==
    LET g1 == IF g.dc_state \in {DC_RUNNING, DC_PASSTHROUGH}
              THEN LET v == gcpm_dc_enable(g, FALSE, F)
                   IN IF v.ret < 0 THEN v ELSE [v EXCEPT !.dc_state = DC_ENABLE]
              ELSE [g EXCEPT !.ret = 0]
    IN IF g1.ret < 0 THEN g1
       ELSE LET g2 == IF g1.dc_state \in {DC_ENABLE, DC_ENABLE_PASSTHROUGH}
                      THEN gcpm_chg_set_online(g1, GCPM_DEFAULT_CHARGER, F)
                      ELSE [g1 EXCEPT !.ret = 0]
            IN IF g2.ret < 0 THEN g2
               ELSE [g2 EXCEPT !.dc_state = final_state, !.ret = 0]

gcpm_dc_start(g, index, F) ==
    LET g1 == gcpm_chg_set_online(g, index, F)
    IN IF g1.ret < 0 THEN g1
       ELSE IF ~gcpm_chg_get_active(g1) THEN [g1 EXCEPT !.ret = -ENODEV]
       ELSE
         LET g2 == GPSY_SET_PROP(g1, "CONSTANT_CHARGE_VOLTAGE_MAX", g1.active,
                                 fv_uv, "FV" \notin F)
         IN IF g2.ret < 0 THEN g2
            ELSE
              LET g3 == GPSY_SET_PROP(g2, "CONSTANT_CHARGE_CURRENT_MAX",
                                      g2.active, cc_max, "CC" \notin F)
              IN IF g3.ret < 0 THEN g3
                 ELSE
                   LET g4 == GPSY_SET_PROP(g3, "CURRENT_MAX", g3.active,
                                           g3.out_ua, "IIN" \notin F)
                   IN IF g4.ret < 0 THEN g4
                      ELSE gcpm_dc_enable(g4, TRUE, F)

----------------------------------------------------------------------------
\* PPS library (google_dc_pps), per session p = [pps_psy, stage]

\* pps_init_state(): the session is reset for a new detection
pps_init_state(p) == [p EXCEPT !.stage = "NONE"]

\* pps_prog_offline(): the source is asked back to its passive state; on
\* success the session is disabled, on error nothing changes
pps_prog_offline(p, ok) == IF ok THEN [p EXCEPT !.stage = "DISABLED"] ELSE p

\* the stages one pps_work() call can leave a session in
PpsWorkStages(stage) ==
    CASE stage = "NONE" -> {"NONE", "AVAILABLE", "NOTSUPP"}
      [] stage = "AVAILABLE" -> {"AVAILABLE", "ACTIVE", "NOTSUPP"}
      [] stage = "ACTIVE" -> {"ACTIVE", "DISABLED", "NOTSUPP"}
      [] stage = "DISABLED" -> {"DISABLED", "NOTSUPP"}
      [] OTHER -> {"NOTSUPP"}

\* what one pps_work() call does: the new stage and the interval it returns
\* (negative: error)
PpsWorkOutcomes(p) ==
    [stage : PpsWorkStages(p.stage), pps_ui : {-EAGAIN, PPS_ERROR_RETRY_MS}]

\* what pps_update_adapter() returns: an error or the next-poll interval
PpsUpdateReturns == {-EINVAL, 1000, 7000}

gcpm_pps_online(g) ==
    [g EXCEPT !.out_ua = -1, !.out_uv = -1,
              !.tcpm = IF @.pps_psy THEN pps_init_state(@) ELSE @,
              !.wlc = IF @.pps_psy THEN pps_init_state(@) ELSE @,
              !.pps_index = 0]

\* struct pd_pps_data *gcpm_pps_data(gcpm): "tcpm", "wlc" or "none" (NULL)
gcpm_pps_data(g) ==
    IF g.pps_index = PPS_INDEX_TCPM THEN "tcpm"
    ELSE IF g.pps_index = PPS_INDEX_WLC THEN "wlc"
    ELSE "none"

\* gcpm_pps_work(); tw and ww are the outcomes of pps_work() on the tcpm and
\* the wlc session when it is called on them
gcpm_pps_work(g, tw, ww) ==
    LET t_run == g.tcpm.stage # "NOTSUPP"
        w_run == g.wlc.stage # "NOTSUPP"
        tcpm1 == IF t_run THEN [g.tcpm EXCEPT !.stage = tw.stage] ELSE g.tcpm
        wlc1 == IF w_run THEN [g.wlc EXCEPT !.stage = ww.stage] ELSE g.wlc
        idx1 == IF t_run /\ tw.pps_ui >= 0 /\ tcpm1.stage = "ACTIVE"
                THEN PPS_INDEX_TCPM ELSE 0
        idx2 == IF w_run /\ ww.pps_ui >= 0 /\ wlc1.stage = "ACTIVE"
                THEN PPS_INDEX_WLC ELSE idx1
        not_supported == (IF t_run THEN 0 ELSE 1) + (IF w_run THEN 0 ELSE 1)
        g1 == [g EXCEPT !.tcpm = tcpm1, !.wlc = wlc1,
                        !.calls = Append(@, <<"pps_work", -1, not_supported,
                                              TRUE>>)]
    IN IF not_supported = PPS_INDEX_MAX THEN [g1 EXCEPT !.ret = -ENODEV]
       ELSE [g1 EXCEPT !.ret = IF g.pps_index # 0 /\ idx2 = 0
                                THEN -ENODEV ELSE 0,
                       !.pps_index = idx2]

\* variant: taking the PPS sessions offline keeps pps_index
gcpm_pps_offline_keep(g, F) ==
    LET ok == "PPS_OFFLINE" \notin F
    IN [g EXCEPT !.tcpm = IF @.pps_psy THEN pps_prog_offline(@, ok) ELSE @,
                 !.wlc = IF @.pps_psy THEN pps_prog_offline(@, ok) ELSE @,
                 !.calls = Append(@, <<"pps_offline", -1, 0, ok>>),
                 !.ret = 0]

gcpm_pps_offline(g, F) ==
    LET ok == "PPS_OFFLINE" \notin F
    IN [g EXCEPT !.tcpm = IF @.pps_psy THEN pps_prog_offline(@, ok) ELSE @,
                 !.wlc = IF @.pps_psy THEN pps_prog_offline(@, ok) ELSE @,
                 !.calls = Append(@, <<"pps_offline", -1, 0, ok>>),
                 !.pps_index = 0,
                 !.ret = 0]

\* variant: sources that do not support PPS are not looked at
gcpm_chg_dc_check_source_any(index) ==
    IF taper_control THEN FALSE ELSE index = GCPM_INDEX_DC_ENABLE

gcpm_chg_dc_check_source(index) ==
    IF taper_control THEN FALSE
    ELSE IF tcpm_pps_data.stage = "NOTSUPP" /\ wlc_pps_data.stage = "NOTSUPP"
         THEN FALSE
    ELSE index = GCPM_INDEX_DC_ENABLE

----------------------------------------------------------------------------
\* Negotiation task

\* keepalive outcomes: GPSY_SET_PROP(dc_psy, GBMS_PROP_CHARGING_ENABLED,
\* pps_index) returns 0, -EBUSY/-EAGAIN or another error
KeepAlive == {0, -EBUSY, -EAGAIN, -EIO}

\* the result of one run: the record g plus the branch taken, the interval
\* pps_ui, whether the run reaches pps_dc_reschedule, and whether it queues
\* the selection task with no delay
Done(g, branch) ==
    [g |-> g, branch |-> branch, pps_ui |-> -ENODEV, resched |-> FALSE,
     select_now |-> FALSE]

Resched(g, branch, pps_ui) ==
    [g |-> g, branch |-> branch, pps_ui |-> pps_ui, resched |-> TRUE,
     select_now |-> FALSE]

\* variant: a spurious run asks for another run
gcpm_pps_wlc_dc_stop_again(g, F) ==
    IF g.dc_state <= DC_IDLE
    THEN Resched(g, "spurious", PPS_ERROR_RETRY_MS)
    ELSE
      LET g1 == gcpm_dc_stop(g, DC_DISABLED, F)
      IN IF g1.ret < 0 THEN Resched(g1, "retry_disable", DC_ERROR_RETRY_MS)
         ELSE Done([gcpm_pps_offline(g1, F) EXCEPT !.dc_state =
                        IF g1.dc_index = GCPM_DEFAULT_CHARGER
                        THEN DC_IDLE ELSE @], "stop_done")

\* dc_index <= 0: tear the session down
gcpm_pps_wlc_dc_stop(g, F) ==
    IF g.dc_state <= DC_IDLE THEN Done(g, "spurious")
    ELSE
      LET g1 == gcpm_dc_stop(g, DC_DISABLED, F)
      IN IF g1.ret < 0 THEN Resched(g1, "retry_disable", DC_ERROR_RETRY_MS)
         ELSE
           LET g2 == gcpm_pps_offline(g1, F)
           IN IF g2.ret < 0
              THEN Resched(g2, "fail_pps_offline", PPS_ERROR_RETRY_MS)
              ELSE Done([g2 EXCEPT !.dc_state =
                             IF g2.dc_index = GCPM_DEFAULT_CHARGER
                             THEN DC_IDLE ELSE @], "stop_done")

\* variant: a PPS source that went offline does not clear dc_index
gcpm_pps_wlc_dc_monitor_keep(g, F, prog_online, vbatt, ka) ==
    IF ~(gcpm_pps_data(g) # "none" /\ prog_online)
    THEN Resched(g, "pps_offline", DC_ERROR_RETRY_MS)
    ELSE IF ~gcpm_chg_get_active(g)
    THEN Resched(g, "no_adapter", DC_ERROR_RETRY_MS)
    ELSE Resched([g EXCEPT !.calls = Append(@, <<"CHARGING_ENABLED", g.active,
                                                 g.pps_index, TRUE>>)],
                 "keepalive", DC_RUN_DELAY_MS)

\* dc_state == DC_PASSTHROUGH: monitor the session
gcpm_pps_wlc_dc_monitor(g, F, prog_online, vbatt, ka) ==
    IF ~(gcpm_pps_data(g) # "none" /\ prog_online)
    THEN Resched([g EXCEPT !.dc_index = 0], "pps_offline", DC_ERROR_RETRY_MS)
    ELSE IF ~gcpm_chg_get_active(g)
    THEN Resched(g, "no_adapter", DC_ERROR_RETRY_MS)
    ELSE
      LET select_now == gcpm_chg_select(vbatt) # g.dc_index
          g1 == [g EXCEPT !.calls = Append(@, <<"CHARGING_ENABLED", g.active,
                                                g.pps_index, ka = 0>>)]
          r == IF ka = 0
               THEN Resched(gcpm_chg_ping(g1, GCPM_DEFAULT_CHARGER, F),
                            "keepalive", DC_RUN_DELAY_MS)
               ELSE IF ka = -EBUSY \/ ka = -EAGAIN
               THEN Resched(g1, "keepalive_busy", DC_ERROR_RETRY_MS)
               ELSE LET g2 == gcpm_chg_set_online(g1, GCPM_DEFAULT_CHARGER, F)
                    IN IF g2.ret < 0
                       THEN Resched(g2, "keepalive_fail", DC_ERROR_RETRY_MS)
                       ELSE Resched(g2, "dc_offline", 0)
      IN [r EXCEPT !.select_now = select_now]

\* DC_ENABLE_PASSTHROUGH with an active PPS session: hand over to the DC
\* charger; upd is what pps_update_adapter() returns
\* variant: a handover that succeeds enters DC_RUNNING
gcpm_pps_wlc_dc_handover_running(g, F, upd) ==
    LET pps_ui == IF upd < 0 THEN PPS_ERROR_RETRY_MS ELSE upd
        g0 == [g EXCEPT !.calls = Append(@, <<"pps_update_adapter", -1, upd,
                                              upd >= 0>>)]
        g1 == gcpm_chg_offline(g0, F)
        g2 == IF g1.ret = 0 THEN gcpm_dc_start(g1, g1.dc_index, F) ELSE g1
    IN IF g2.ret = 0
       THEN Resched([g2 EXCEPT !.dc_state = DC_RUNNING], "handover",
                    DC_ENABLE_DELAY_MS)
       ELSE Resched(g2, "handover_fail",
                    IF pps_ui > DC_ERROR_RETRY_MS THEN DC_ERROR_RETRY_MS
                    ELSE pps_ui)

gcpm_pps_wlc_dc_handover(g, F, upd) ==
    LET pps_ui == IF upd < 0 THEN PPS_ERROR_RETRY_MS ELSE upd
        g0 == [g EXCEPT !.calls = Append(@, <<"pps_update_adapter", -1, upd,
                                              upd >= 0>>)]
        g1 == gcpm_chg_offline(g0, F)
        g2 == IF g1.ret = 0 THEN gcpm_dc_start(g1, g1.dc_index, F) ELSE g1
    IN IF g2.ret = 0
       THEN Resched([g2 EXCEPT !.dc_state = DC_PASSTHROUGH], "handover",
                    DC_ENABLE_DELAY_MS)
       ELSE Resched(g2, "handover_fail",
                    IF pps_ui > DC_ERROR_RETRY_MS THEN DC_ERROR_RETRY_MS
                    ELSE pps_ui)

\* variant: the timeouts do not clear dc_index
gcpm_pps_wlc_dc_detect_keep(g, F, tw, ww, upd) ==
    LET g1 == gcpm_pps_work(g, tw, ww)
    IN IF g1.ret < 0
       THEN IF elap < PPS_PROG_TIMEOUT_S
            THEN Resched(gcpm_pps_online(g1), "prog_retry", PPS_PROG_RETRY_MS)
            ELSE Resched(g1, "prog_timeout", PPS_ERROR_RETRY_MS)
       ELSE IF gcpm_pps_data(g1) = "none"
       THEN IF elap < PPS_ACTIVE_TIMEOUT_S
            THEN Resched(g1, "active_retry", PPS_ACTIVE_RETRY_MS)
            ELSE Resched(g1, "active_timeout", PPS_ERROR_RETRY_MS)
       ELSE IF g1.dc_state = DC_ENABLE_PASSTHROUGH
       THEN gcpm_pps_wlc_dc_handover(g1, F, upd)
       ELSE Resched(g1, "steady",
                    IF upd < 0 THEN PPS_ERROR_RETRY_MS ELSE upd)

\* the rest of the task: detection, then handover or steady state
gcpm_pps_wlc_dc_detect(g, F, tw, ww, upd) ==
    LET g1 == gcpm_pps_work(g, tw, ww)
    IN IF g1.ret < 0
       THEN IF elap < PPS_PROG_TIMEOUT_S
            THEN Resched(gcpm_pps_online(g1), "prog_retry", PPS_PROG_RETRY_MS)
            ELSE Resched([g1 EXCEPT !.dc_index = 0], "prog_timeout",
                         PPS_ERROR_RETRY_MS)
       ELSE IF gcpm_pps_data(g1) = "none"
       THEN IF elap < PPS_ACTIVE_TIMEOUT_S
            THEN Resched(g1, "active_retry", PPS_ACTIVE_RETRY_MS)
            ELSE Resched([g1 EXCEPT !.dc_index = 0], "active_timeout",
                         PPS_ERROR_RETRY_MS)
       ELSE IF g1.dc_state = DC_ENABLE_PASSTHROUGH
       THEN gcpm_pps_wlc_dc_handover(g1, F, upd)
       ELSE Resched([g1 EXCEPT !.calls = Append(@, <<"pps_update_adapter", -1,
                                                     upd, upd >= 0>>)],
                    "steady", IF upd < 0 THEN PPS_ERROR_RETRY_MS ELSE upd)

gcpm_pps_wlc_dc_work(g, F, prog_online, vbatt, ka, tw, ww, upd) ==
    IF ~resume_complete \/ ~init_complete THEN Done(g, "spurious_init")
    ELSE IF g.dc_index <= 0 THEN gcpm_pps_wlc_dc_stop(g, F)
    ELSE IF g.dc_state = DC_PASSTHROUGH
         THEN gcpm_pps_wlc_dc_monitor(g, F, prog_online, vbatt, ka)
    ELSE gcpm_pps_wlc_dc_detect(g, F, tw, ww, upd)

----------------------------------------------------------------------------
\* Inputs of the handlers

\* what reading VOLTAGE_NOW from the default charger returns: an error, or
\* a voltage below vbatt_low, between low and min, between min and high,
\* above max (for the default limits)
VBattReadings == {-EIO, 3300000, 3550000, 4000000, 4420000}

FaultSetsOf(points) ==
    {F \in SUBSET (points \cap FaultPoints) : Cardinality(F) <= MaxFaults}

\* the calls each branch of the negotiation task makes
StopFaults ==
    FaultSetsOf({"VOTE", "CHARGING_DISABLE", "ONLINE_0", "ONLINE_1",
                 "PPS_OFFLINE"})
MonitorFaults == FaultSetsOf({"CHARGING_DISABLE", "ONLINE_0", "ONLINE_1"})
HandoverFaults ==
    FaultSetsOf({"CHARGING_DISABLE", "ONLINE_0", "ONLINE_1", "FV", "CC",
                 "IIN", "VOTE"})

NoInputs ==
    [F |-> {}, prog_online |-> FALSE, vbatt |-> -EIO, ka |-> 0,
     tw |-> [stage |-> tcpm_pps_data.stage, pps_ui |-> -EAGAIN],
     ww |-> [stage |-> wlc_pps_data.stage, pps_ui |-> -EAGAIN],
     upd |-> -EINVAL]

\* the inputs one run of the negotiation task reads, by the branch it takes
PpsWorkInputs ==
    IF ~resume_complete \/ ~init_complete THEN {NoInputs}
    ELSE IF dc_index <= 0
    THEN {[NoInputs EXCEPT !.F = F] : F \in StopFaults}
    ELSE IF dc_state = DC_PASSTHROUGH
    THEN {NoInputs} \cup
         {[NoInputs EXCEPT !.prog_online = TRUE, !.vbatt = vb, !.ka = ka,
                           !.F = F] :
            vb \in VBattReadings, ka \in KeepAlive,
            F \in MonitorFaults}
    ELSE UNION {
           LET g1 == gcpm_pps_work(Gcpm, tw, ww)
           IN IF g1.ret >= 0 /\ gcpm_pps_data(g1) # "none"
              THEN {[NoInputs EXCEPT !.tw = tw, !.ww = ww, !.upd = upd,
                                     !.F = F] :
                      upd \in PpsUpdateReturns,
                      F \in HandoverFaults}
              ELSE {[NoInputs EXCEPT !.tw = tw, !.ww = ww]} :
           tw \in PpsWorkOutcomes(tcpm_pps_data),
           ww \in PpsWorkOutcomes(wlc_pps_data)}

----------------------------------------------------------------------------
\* Delayed works

\* schedule_delayed_work(): queues the work unless it is already pending
schedule_delayed_work(work, delay) == IF work >= 0 THEN work ELSE delay

\* mod_delayed_work(): queues the work or moves its timer
mod_delayed_work(work, delay) == delay

----------------------------------------------------------------------------
\* Actions

\* last: what the handler that has just run did (cleared when time passes)
NoSel == [done |-> FALSE, vbatt |-> 0, result |-> 0]
NoEv == [op |-> "none", arg |-> "", val |-> 0, ret |-> 0]
NoLast == [op |-> "none", branch |-> "", failed |-> {}]

\* the calls of a run that failed, <<property, index, value>>
FailedCalls(calls) ==
    {<<calls[i][1], calls[i][2], calls[i][3]>> :
       i \in {j \in 1..Len(calls) : ~calls[j][4]}}


\* The workqueue starts the negotiation task when its timer expires: the
\* work is no longer pending (it can be queued again from here on) and its
\* handler waits for chg_psy_lock.  A work item never runs twice at once.
PpsDequeue ==
    /\ pps_work = 0 /\ ~pps_run
    /\ pps_work' = -1
    /\ pps_run' = TRUE
    /\ last' = NoLast
    /\ UNCHANGED <<config_vars, chg_psy_active, tcpm_pps_data, wlc_pps_data,
                   out_ua, out_uv, pps_index, dc_index, dc_state,
                   taper_control, cc_max, fv_uv, new_dc_limit, psy_online,
                   dc_vote, select_work, elap>>

\* gcpm_pps_wlc_dc_work(): the negotiation task, from taking chg_psy_lock
\* to releasing it, reading one of the given inputs
PpsWorkOn(inputs) ==
    /\ pps_run
    /\ pps_run' = FALSE
    /\ \E in \in inputs :
       \E r \in {gcpm_pps_wlc_dc_work(Gcpm, in.F, in.prog_online, in.vbatt,
                                       in.ka, in.tw, in.ww, in.upd)} :
       \E g \in {r.g} :
            /\ chg_psy_active' = g.active
            /\ psy_online' = g.online
            /\ dc_vote' = g.vote
            /\ dc_state' = g.dc_state
            /\ dc_index' = g.dc_index
            /\ pps_index' = g.pps_index
            /\ tcpm_pps_data' = g.tcpm
            /\ wlc_pps_data' = g.wlc
            /\ out_ua' = g.out_ua
            /\ out_uv' = g.out_uv
            /\ pps_work' = IF r.resched /\ r.pps_ui > 0
                           THEN schedule_delayed_work(pps_work, r.pps_ui)
                           ELSE pps_work
            /\ select_work' = IF r.select_now
                              THEN mod_delayed_work(select_work, 0)
                              ELSE select_work
            /\ last' = [op |-> "pps_work", branch |-> r.branch,
                        failed |-> FailedCalls(g.calls)]
    /\ UNCHANGED <<config_vars, taper_control, cc_max, fv_uv, new_dc_limit,
                   elap>>

PpsWork == PpsWorkOn(PpsWorkInputs)

\* the negotiation task when every call it makes succeeds
PpsWorkQuiet == PpsWorkOn({in \in PpsWorkInputs : in.F = {}})

\* variant: a negative selection is handled as the default index
gcpm_chg_select_work_noagain(g, index0) ==
    LET dc_done == taper_control
        index == IF taper_control \/ index0 < 0 THEN GCPM_DEFAULT_CHARGER
                 ELSE index0
    IN IF ~gcpm_chg_dc_check_source(index)
       THEN IF g.dc_state > DC_IDLE /\ g.dc_index > 0
            THEN [g |-> [g EXCEPT !.dc_index = IF dc_done THEN -1
                                                ELSE GCPM_DEFAULT_CHARGER],
                  branch |-> "stop", select_ms |-> -1, pps_ms |-> 0,
                  start |-> FALSE]
            ELSE [g |-> g, branch |-> "none", select_ms |-> -1, pps_ms |-> -1,
                  start |-> FALSE]
       ELSE IF g.dc_state = DC_DISABLED
       THEN [g |-> g, branch |-> "disabled", select_ms |-> -1, pps_ms |-> -1,
             start |-> FALSE]
       ELSE IF g.dc_state = DC_IDLE
       THEN [g |-> [gcpm_pps_online(g) EXCEPT
                       !.dc_state = DC_ENABLE_PASSTHROUGH,
                       !.dc_index = index],
             branch |-> "start", select_ms |-> -1, pps_ms |-> 5000,
             start |-> TRUE]
       ELSE [g |-> g, branch |-> "keep", select_ms |-> -1, pps_ms |-> -1,
             start |-> FALSE]

\* variant: starting a session does not record the selected index
gcpm_chg_select_work_noindex(g, index0) ==
    LET dc_done == taper_control
        index == IF taper_control THEN GCPM_DEFAULT_CHARGER ELSE index0
    IN IF ~taper_control /\ index0 < 0
       THEN [g |-> g, branch |-> "again", select_ms |-> 5000, pps_ms |-> -1,
             start |-> FALSE]
       ELSE IF ~gcpm_chg_dc_check_source(index)
       THEN IF g.dc_state > DC_IDLE /\ g.dc_index > 0
            THEN [g |-> [g EXCEPT !.dc_index = IF dc_done THEN -1
                                                ELSE GCPM_DEFAULT_CHARGER],
                  branch |-> "stop", select_ms |-> -1, pps_ms |-> 0,
                  start |-> FALSE]
            ELSE [g |-> g, branch |-> "none", select_ms |-> -1, pps_ms |-> -1,
                  start |-> FALSE]
       ELSE IF g.dc_state = DC_DISABLED
       THEN [g |-> g, branch |-> "disabled", select_ms |-> -1, pps_ms |-> -1,
             start |-> FALSE]
       ELSE IF g.dc_state = DC_IDLE
       THEN [g |-> [gcpm_pps_online(g) EXCEPT
                       !.dc_state = DC_ENABLE_PASSTHROUGH],
             branch |-> "start", select_ms |-> -1, pps_ms |-> 5000,
             start |-> TRUE]
       ELSE [g |-> g, branch |-> "keep", select_ms |-> -1, pps_ms |-> -1,
             start |-> FALSE]

\* variant: the selection task does not look for DC_DISABLED
gcpm_chg_select_work_nodisabled(g, index0) ==
    LET dc_done == taper_control
        index == IF taper_control THEN GCPM_DEFAULT_CHARGER ELSE index0
    IN IF ~taper_control /\ index0 < 0
       THEN [g |-> g, branch |-> "again", select_ms |-> 5000, pps_ms |-> -1,
             start |-> FALSE]
       ELSE IF ~gcpm_chg_dc_check_source(index)
       THEN IF g.dc_state > DC_IDLE /\ g.dc_index > 0
            THEN [g |-> [g EXCEPT !.dc_index = IF dc_done THEN -1
                                                ELSE GCPM_DEFAULT_CHARGER],
                  branch |-> "stop", select_ms |-> -1, pps_ms |-> 0,
                  start |-> FALSE]
            ELSE [g |-> g, branch |-> "none", select_ms |-> -1, pps_ms |-> -1,
                  start |-> FALSE]
       ELSE IF g.dc_state <= DC_IDLE
       THEN [g |-> [gcpm_pps_online(g) EXCEPT
                       !.dc_state = DC_ENABLE_PASSTHROUGH,
                       !.dc_index = index],
             branch |-> "start", select_ms |-> -1, pps_ms |-> 5000,
             start |-> TRUE]
       ELSE [g |-> g, branch |-> "keep", select_ms |-> -1, pps_ms |-> -1,
             start |-> FALSE]

\* gcpm_chg_select_work(): the result of one run of the selection task
\* when gcpm_chg_select() returned index.  (The selection task is started
\* and run in one step: a selection queued while it waits for the lock is a
\* selection queued by a set-property right after it.)
gcpm_chg_select_work(g, index0) ==
    LET dc_done == taper_control
        index == IF taper_control THEN GCPM_DEFAULT_CHARGER ELSE index0
    IN IF ~taper_control /\ index0 < 0
       THEN [g |-> g, branch |-> "again", select_ms |-> 5000, pps_ms |-> -1,
             start |-> FALSE]
       ELSE IF ~gcpm_chg_dc_check_source(index)
       THEN IF g.dc_state > DC_IDLE /\ g.dc_index > 0
            THEN [g |-> [g EXCEPT !.dc_index = IF dc_done THEN -1
                                                ELSE GCPM_DEFAULT_CHARGER],
                  branch |-> "stop", select_ms |-> -1, pps_ms |-> 0,
                  start |-> FALSE]
            ELSE [g |-> g, branch |-> "none", select_ms |-> -1, pps_ms |-> -1,
                  start |-> FALSE]
       ELSE IF g.dc_state = DC_DISABLED
       THEN [g |-> g, branch |-> "disabled", select_ms |-> -1, pps_ms |-> -1,
             start |-> FALSE]
       ELSE IF g.dc_state = DC_IDLE
       THEN [g |-> [gcpm_pps_online(g) EXCEPT
                       !.dc_state = DC_ENABLE_PASSTHROUGH,
                       !.dc_index = index],
             branch |-> "start", select_ms |-> -1, pps_ms |-> 5000,
             start |-> TRUE]
       ELSE [g |-> g, branch |-> "keep", select_ms |-> -1, pps_ms |-> -1,
             start |-> FALSE]

SelectWork ==
    /\ select_work = 0
    /\ \E vbatt \in VBattReadings :
       \E r \in {gcpm_chg_select_work(Gcpm, gcpm_chg_select(vbatt))} :
       \E g \in {r.g} :
            /\ dc_state' = g.dc_state
            /\ dc_index' = g.dc_index
            /\ pps_index' = g.pps_index
            /\ tcpm_pps_data' = g.tcpm
            /\ wlc_pps_data' = g.wlc
            /\ out_ua' = g.out_ua
            /\ out_uv' = g.out_uv
            /\ elap' = IF r.start THEN 0 ELSE elap
            /\ select_work' = IF r.select_ms >= 0
                              THEN schedule_delayed_work(-1, r.select_ms)
                              ELSE -1
            /\ pps_work' = IF r.pps_ms >= 0
                           THEN mod_delayed_work(pps_work, r.pps_ms)
                           ELSE pps_work
            /\ last' = [op |-> "select_work", branch |-> r.branch,
                        failed |-> {}]
    /\ UNCHANGED <<pps_run, config_vars, chg_psy_active, psy_online, dc_vote,
                   taper_control, cc_max, fv_uv, new_dc_limit>>

\* the demand the upstream charging policy sets
CcMaxValues == {0, 3000000}
FvUvValues == {4400000}

SetPropertyValues(psp) ==
    CASE psp = "CONSTANT_CHARGE_CURRENT_MAX" -> CcMaxValues
      [] psp \in {"VOLTAGE_MAX", "CONSTANT_CHARGE_VOLTAGE_MAX"} -> FvUvValues
      [] psp = "CURRENT_MAX" -> {500000}
      [] OTHER -> {0, 1}

\* whether routing the property to the active charger succeeds; only a
\* routed ONLINE changes the state of the model
RouteOutcomes(psp) == IF psp = "ONLINE" THEN BOOLEAN ELSE {TRUE}

SetProperties ==
    {"TAPER_CONTROL", "CHARGE_DISABLE", "ONLINE", "VOLTAGE_MAX",
     "CONSTANT_CHARGE_VOLTAGE_MAX", "CONSTANT_CHARGE_CURRENT_MAX",
     "CURRENT_MAX"}

\* gcpm_psy_set_property(): ta_check, then the routing of the property to
\* the active charger (route_ok: that call succeeds)
gcpm_psy_set_property(psp, val, route_ok) ==
    IF ~init_complete \/ ~resume_complete
    THEN [taper_control |-> taper_control, fv_uv |-> fv_uv, cc_max |-> cc_max,
          new_dc_limit |-> new_dc_limit, select_now |-> FALSE,
          online |-> psy_online, ret |-> -EAGAIN]
    ELSE
    LET is_fv == psp \in {"VOLTAGE_MAX", "CONSTANT_CHARGE_VOLTAGE_MAX"}
        is_cc == psp = "CONSTANT_CHARGE_CURRENT_MAX"
        taper == IF psp = "TAPER_CONTROL" THEN val # 0 ELSE taper_control
        ta_check0 ==
            CASE psp = "TAPER_CONTROL" -> taper # taper_control
              [] psp \in {"CHARGE_DISABLE", "ONLINE"} -> TRUE
              [] is_fv -> fv_uv # val
              [] is_cc -> cc_max # val
              [] OTHER -> FALSE
        ta_check == ta_check0 \/ new_dc_limit
        route == psp # "TAPER_CONTROL"
        routed == route /\ gcpm_chg_get_active(Gcpm)
    IN [taper_control |-> taper,
        fv_uv |-> IF is_fv THEN val ELSE fv_uv,
        cc_max |-> IF is_cc THEN val ELSE cc_max,
        new_dc_limit |-> FALSE,
        select_now |-> dc_init_complete /\ ta_check,
        online |-> IF routed /\ route_ok /\ psp = "ONLINE"
                   THEN [psy_online EXCEPT ![chg_psy_active] = (val # 0)]
                   ELSE psy_online,
        ret |-> IF routed /\ ~route_ok THEN -EIO ELSE 0]

\* the state one gcpm_psy_set_property() call leaves, r being its result
SetPropertyStep(r) ==
    /\ taper_control' = r.taper_control
    /\ fv_uv' = r.fv_uv
    /\ cc_max' = r.cc_max
    /\ new_dc_limit' = r.new_dc_limit
    /\ select_work' = IF r.select_now
                      THEN mod_delayed_work(select_work, 0)
                      ELSE select_work
    /\ psy_online' = r.online
    /\ last' = NoLast
    /\ UNCHANGED <<pps_run, chg_psy_active, tcpm_pps_data, wlc_pps_data,
                   out_ua, out_uv, pps_index, dc_index, dc_state, dc_vote,
                   pps_work, elap>>

\* a gcpm_psy_set_property() call for one of the given properties
SetPropertyOn(props) ==
    /\ \E psp \in props :
       \E val \in SetPropertyValues(psp), route_ok \in RouteOutcomes(psp) :
            SetPropertyStep(gcpm_psy_set_property(psp, val, route_ok))
    /\ UNCHANGED config_vars

SetProperty == SetPropertyOn(SetProperties)

\* the calls that set the charge current, taper control and charge disable
SetDemand ==
    SetPropertyOn({"TAPER_CONTROL", "CHARGE_DISABLE",
                   "CONSTANT_CHARGE_CURRENT_MAX"})

\* gcpm_psy_get_property(): what it returns (route_ok: the read of the
\* active charger succeeds); it changes no state
gcpm_psy_get_property(route_ok) ==
    IF ~init_complete \/ ~resume_complete THEN -EAGAIN
    ELSE IF ~gcpm_chg_get_active(Gcpm) THEN -ENODEV
    ELSE IF route_ok THEN 0 ELSE -EIO

\* the power supplies a change notification can come from
PsyNames == {"chg0", "chg1", "tcpm", "wlc", "other"}

chg_psy_names(index) == IF index = 0 THEN "chg0" ELSE "chg1"

\* variant: a notification is looked at when there is no active source
gcpm_psy_changed_noactive(name) ==
    IF name \in {"chg0", "tcpm", "wlc"}
          \/ (chg_psy_active # -1 /\ name = chg_psy_names(chg_psy_active))
    THEN dc_state = DC_PASSTHROUGH \/ dc_state = DC_RUNNING
    ELSE FALSE

\* gcpm_psy_changed(): whether the notification tickles the negotiation task
gcpm_psy_changed(name) ==
    IF chg_psy_active = -1 THEN FALSE
    ELSE IF name \in {chg_psy_names(chg_psy_active), chg_psy_names(0),
                      "tcpm", "wlc"}
         THEN dc_state = DC_PASSTHROUGH \/ dc_state = DC_RUNNING
    ELSE FALSE

\* the state one gcpm_psy_changed() call leaves
PsyChangedStep(name) ==
    /\ pps_work' = IF gcpm_psy_changed(name)
                   THEN mod_delayed_work(pps_work, 0) ELSE pps_work
    /\ last' = NoLast
    /\ UNCHANGED <<pps_run, chg_psy_active, tcpm_pps_data, wlc_pps_data,
                   out_ua, out_uv, pps_index, dc_index, dc_state,
                   taper_control, cc_max, fv_uv, new_dc_limit, psy_online,
                   dc_vote, select_work, elap>>

\* the notifier is registered by the run of gcpm_init_work() that sets
\* init_complete
PsyChanged ==
    /\ init_complete
    /\ \E name \in PsyNames : PsyChangedStep(name)
    /\ UNCHANGED config_vars

\* Time passes: pending works become due (the model does not count the
\* milliseconds: a pending work may become due at any later time) and the
\* boot clock moves on; a due work runs before more time passes.  elap is
\* kept to the values the code tells apart: below PPS_PROG_TIMEOUT_S, from
\* there to PPS_ACTIVE_TIMEOUT_S, and beyond.
ElapValues == {0, PPS_PROG_TIMEOUT_S, PPS_ACTIVE_TIMEOUT_S}

Pending == {w \in {select_work, pps_work, init_work} : w >= 0}

Tick ==
    /\ 0 \notin Pending /\ ~pps_run
    /\ Pending # {}
    /\ elap' \in {e \in ElapValues : e >= elap}
    /\ select_work' \in (IF select_work > 0 THEN {0, select_work} ELSE {-1})
    /\ pps_work' \in (IF pps_work > 0 THEN {0, pps_work} ELSE {-1})
    /\ init_work' \in (IF init_work > 0 THEN {0, init_work} ELSE {-1})
    /\ select_work' = 0 \/ pps_work' = 0 \/ init_work' = 0
    /\ last' = NoLast
    /\ UNCHANGED <<pps_run, static_vars, ev, chg_psy_active, tcpm_pps_data, wlc_pps_data,
                   out_ua, out_uv, pps_index, dc_index, dc_state,
                   taper_control, cc_max, fv_uv, new_dc_limit, psy_online,
                   dc_vote>>

----------------------------------------------------------------------------
\* The controller once start-up (gcpm_init_work) has completed: both
\* chargers and both PPS sources are found, the default charger is online

Init ==
    /\ chg_psy_count = 2
    /\ chg_psy_avail = [i \in 0..1 |-> TRUE]
    /\ chg_psy_active = 0
    /\ force_active = -1
    /\ tcpm_pps_data = [pps_psy |-> TRUE, stage |-> "NONE"]
    /\ wlc_pps_data = [pps_psy |-> TRUE, stage |-> "NONE"]
    /\ out_ua = -1 /\ out_uv = -1
    /\ pps_index = 0 /\ dc_index = 0 /\ dc_state = DC_IDLE
    /\ taper_control = FALSE
    /\ dc_limit = DefaultLimits
    /\ cc_max = 0 /\ fv_uv = 0
    /\ init_complete = TRUE /\ resume_complete = TRUE
    /\ dc_init_complete = TRUE
    /\ new_dc_limit = FALSE
    /\ psy_online = [i \in 0..1 |-> i = GCPM_DEFAULT_CHARGER]
    /\ dc_vote = FALSE
    /\ select_work = -1 /\ pps_work = -1 /\ pps_run = FALSE
    /\ elap = 0
    /\ last = NoLast
    /\ sel = NoSel
    /\ ev = NoEv
    /\ chg_psy_retries = 0 /\ log_psy_ratelimit = LOG_PSY_RATELIMIT_CNT
    /\ tcpm_phandle = TRUE /\ tcpm_psy = TRUE
    /\ wlc_dc_name = TRUE /\ wlc_dc_psy = TRUE
    /\ init_work = -1
    /\ debug_writes = 0
    /\ chg_psy_lock = "none" /\ pc = [t \in LockTasks |-> "idle"]
    /\ sp = SpIdle

Next == PpsDequeue \/ PpsWork \/ SelectWork \/ SetProperty \/ PsyChanged \/ Tick

Spec == Init /\ [][Next]_vars

----------------------------------------------------------------------------
\* The selection policy on its own: gcpm_chg_select() applied to the fields
\* it reads, drawn from the values the set-property handler, the probe and
\* the debug attributes can store in them.

SelCcMaxValues == {-3000000, 0, 1000000, 3000000}
SelFvUvValues == {-2000000, 0, 4400000}
SelVBattReadings ==
    {-EIO, 3300000, 3400000, 3550000, 3600000, 4000000, 4380000, 4420000}
\* the thresholds of the probe: the defaults, none with a demand limit, and
\* the defaults with a demand limit
SelLimits ==
    {DefaultLimits, ProbeLimits(0, -1, 0, -1, 5000000),
     ProbeLimits(-1, -1, -1, -1, 5000000)}

\* the fields gcpm_chg_select() is specified to depend on
SelInputs == <<cc_max, fv_uv, dc_limit, dc_index, force_active, chg_psy_count>>

InitSelect ==
    /\ chg_psy_count \in {1, 2}
    /\ chg_psy_avail = [i \in 0..1 |-> i < chg_psy_count]
    /\ chg_psy_active = 0
    /\ force_active \in {i \in -1..1 : i < chg_psy_count}
    /\ tcpm_pps_data = [pps_psy |-> TRUE, stage |-> "NONE"]
    /\ wlc_pps_data = [pps_psy |-> TRUE, stage |-> "NONE"]
    /\ out_ua = -1 /\ out_uv = -1
    /\ pps_index = 0
    /\ dc_index \in {i \in -1..1 : i < chg_psy_count}
    /\ dc_state = DC_IDLE
    /\ taper_control = FALSE
    /\ dc_limit \in SelLimits
    /\ cc_max \in SelCcMaxValues /\ fv_uv \in SelFvUvValues
    /\ init_complete = TRUE /\ resume_complete = TRUE
    /\ dc_init_complete = TRUE
    /\ new_dc_limit = FALSE
    /\ psy_online = [i \in 0..1 |-> i = GCPM_DEFAULT_CHARGER]
    /\ dc_vote = FALSE
    /\ select_work = -1 /\ pps_work = -1 /\ pps_run = FALSE
    /\ elap = 0
    /\ last = NoLast
    /\ sel = NoSel
    /\ ev = NoEv
    /\ chg_psy_retries = 0 /\ log_psy_ratelimit = LOG_PSY_RATELIMIT_CNT
    /\ tcpm_phandle = TRUE /\ tcpm_psy = TRUE
    /\ wlc_dc_name = TRUE /\ wlc_dc_psy = TRUE
    /\ init_work = -1
    /\ debug_writes = 0
    /\ chg_psy_lock = "none" /\ pc = [t \in LockTasks |-> "idle"]
    /\ sp = SpIdle

\* one call of gcpm_chg_select(): only its result is kept
SelEval ==
    /\ \E vbatt \in SelVBattReadings :
         sel' = [done |-> TRUE, vbatt |-> vbatt,
                 result |-> gcpm_chg_select(vbatt)]
    /\ UNCHANGED <<pps_run, chg_psy_avail, chg_psy_active, chg_psy_count, force_active,
                   tcpm_pps_data, wlc_pps_data, out_ua, out_uv, pps_index,
                   dc_index, dc_state, taper_control, dc_limit, cc_max, fv_uv,
                   init_complete, resume_complete, dc_init_complete,
                   new_dc_limit, psy_online, dc_vote, select_work, pps_work,
                   elap, last, ev, boot_vars, lock_vars, init_work, debug_writes>>

\* the rest of the controller moves on: fields gcpm_chg_select() is not
\* specified to depend on change
SelPerturb ==
    /\ taper_control' \in BOOLEAN
    /\ dc_state' \in {DC_DISABLED, DC_IDLE, DC_ENABLE_PASSTHROUGH,
                      DC_PASSTHROUGH}
    /\ pps_index' \in {0, PPS_INDEX_TCPM}
    /\ sel' = NoSel
    /\ UNCHANGED <<pps_run, chg_psy_avail, chg_psy_active, chg_psy_count, force_active,
                   tcpm_pps_data, wlc_pps_data, out_ua, out_uv, dc_index,
                   dc_limit, cc_max, fv_uv, init_complete, resume_complete,
                   dc_init_complete, new_dc_limit, psy_online, dc_vote,
                   select_work, pps_work, elap, last, ev, boot_vars, lock_vars,
                   init_work, debug_writes>>

NextSelect == SelEval \/ SelPerturb

SpecSelect == InitSelect /\ [][NextSelect]_vars

----------------------------------------------------------------------------
\* Start-up task

\* what the look-ups of one run of gcpm_init_work() return: the tcpm power
\* supply (found, NULL or an error pointer), the wlc power supply, whether
\* pps_init() succeeds on them, and each charger
InitWorkInputs ==
    [tcpm : {"found", "null", "err"}, tcpm_ok : BOOLEAN,
     wlc : BOOLEAN, wlc_ok : BOOLEAN, chg : [0..1 -> BOOLEAN]]

\* pps_init() followed by pps_init_state(): the session gets its power
\* supply and is ready for detection; on error it is left as it was
pps_init(p, ok) == IF ok THEN pps_init_state([p EXCEPT !.pps_psy = TRUE]) ELSE p

\* variant: a retry of the PPS sources does not count down
gcpm_init_work_nolimit(in) ==
    LET t_try == tcpm_phandle /\ ~tcpm_psy
        t_found == t_try /\ in.tcpm = "found"
        t_abort == t_try /\ ~t_found
                     /\ (in.tcpm = "null" \/ log_psy_ratelimit = 0)
        t_retry == t_try /\ ~t_found /\ ~t_abort
        rl1 == log_psy_ratelimit
        w_try == wlc_dc_name /\ ~wlc_dc_psy
        w_found == w_try /\ in.wlc
        w_abort == w_try /\ ~w_found /\ rl1 = 0
        w_retry == w_try /\ ~w_found /\ ~w_abort
        rl2 == rl1
        avail == [i \in DOMAIN chg_psy_avail |->
                    chg_psy_avail[i] \/ (i < chg_psy_count /\ in.chg[i])]
        found == Cardinality({i \in 0..(chg_psy_count - 1) : avail[i]})
        retries == IF found = chg_psy_count THEN 0
                   ELSE IF chg_psy_retries # 0 THEN chg_psy_retries - 1
                   ELSE chg_psy_retries
        phandle == tcpm_phandle /\ ~t_abort
        name == wlc_dc_name /\ ~w_abort
        dc_not_done == (phandle /\ ~(tcpm_psy \/ t_found))
                          \/ (name /\ ~(wlc_dc_psy \/ w_found))
        resched == retries # 0 \/ dc_not_done
    IN [tcpm_phandle |-> phandle, tcpm_psy |-> tcpm_psy \/ t_found,
        wlc_dc_name |-> name, wlc_dc_psy |-> wlc_dc_psy \/ w_found,
        tcpm |-> IF t_found THEN pps_init(tcpm_pps_data, in.tcpm_ok)
                 ELSE tcpm_pps_data,
        wlc |-> IF w_found THEN pps_init(wlc_pps_data, in.wlc_ok)
                ELSE wlc_pps_data,
        log_psy_ratelimit |-> rl2,
        chg_psy_avail |-> avail,
        init_complete |-> init_complete \/ avail[GCPM_DEFAULT_CHARGER],
        resume_complete |-> resume_complete \/ avail[GCPM_DEFAULT_CHARGER],
        chg_psy_retries |-> retries,
        resched |-> resched,
        dc_init_complete |-> dc_init_complete \/ ~resched]

\* gcpm_init_work(): the fields one run leaves
gcpm_init_work(in) ==
    LET t_try == tcpm_phandle /\ ~tcpm_psy
        t_found == t_try /\ in.tcpm = "found"
        t_abort == t_try /\ ~t_found
                     /\ (in.tcpm = "null" \/ log_psy_ratelimit = 0)
        t_retry == t_try /\ ~t_found /\ ~t_abort
        rl1 == IF t_retry THEN log_psy_ratelimit - 1 ELSE log_psy_ratelimit
        w_try == wlc_dc_name /\ ~wlc_dc_psy
        w_found == w_try /\ in.wlc
        w_abort == w_try /\ ~w_found /\ rl1 = 0
        w_retry == w_try /\ ~w_found /\ ~w_abort
        rl2 == IF w_retry THEN rl1 - 1 ELSE rl1
        avail == [i \in DOMAIN chg_psy_avail |->
                    chg_psy_avail[i] \/ (i < chg_psy_count /\ in.chg[i])]
        found == Cardinality({i \in 0..(chg_psy_count - 1) : avail[i]})
        retries == IF found = chg_psy_count THEN 0
                   ELSE IF chg_psy_retries # 0 THEN chg_psy_retries - 1
                   ELSE chg_psy_retries
        phandle == tcpm_phandle /\ ~t_abort
        name == wlc_dc_name /\ ~w_abort
        dc_not_done == (phandle /\ ~(tcpm_psy \/ t_found))
                          \/ (name /\ ~(wlc_dc_psy \/ w_found))
        resched == retries # 0 \/ dc_not_done
    IN [tcpm_phandle |-> phandle, tcpm_psy |-> tcpm_psy \/ t_found,
        wlc_dc_name |-> name, wlc_dc_psy |-> wlc_dc_psy \/ w_found,
        tcpm |-> IF t_found THEN pps_init(tcpm_pps_data, in.tcpm_ok)
                 ELSE tcpm_pps_data,
        wlc |-> IF w_found THEN pps_init(wlc_pps_data, in.wlc_ok)
                ELSE wlc_pps_data,
        log_psy_ratelimit |-> rl2,
        chg_psy_avail |-> avail,
        init_complete |-> init_complete \/ avail[GCPM_DEFAULT_CHARGER],
        resume_complete |-> resume_complete \/ avail[GCPM_DEFAULT_CHARGER],
        chg_psy_retries |-> retries,
        resched |-> resched,
        dc_init_complete |-> dc_init_complete \/ ~resched]

InitWork ==
    /\ init_work = 0
    /\ \E in \in InitWorkInputs :
       \E r \in {gcpm_init_work(in)} :
            /\ tcpm_phandle' = r.tcpm_phandle
            /\ tcpm_psy' = r.tcpm_psy
            /\ wlc_dc_name' = r.wlc_dc_name
            /\ wlc_dc_psy' = r.wlc_dc_psy
            /\ tcpm_pps_data' = r.tcpm
            /\ wlc_pps_data' = r.wlc
            /\ log_psy_ratelimit' = r.log_psy_ratelimit
            /\ chg_psy_avail' = r.chg_psy_avail
            /\ init_complete' = r.init_complete
            /\ resume_complete' = r.resume_complete
            /\ chg_psy_retries' = r.chg_psy_retries
            /\ dc_init_complete' = r.dc_init_complete
            /\ init_work' = IF r.resched
                            THEN schedule_delayed_work(-1, INIT_RETRY_DELAY_MS)
                            ELSE -1
    /\ last' = [op |-> "init_work", branch |-> "", failed |-> {}]
    /\ UNCHANGED <<chg_psy_active, chg_psy_count, force_active, out_ua,
                   out_uv, pps_index, dc_index, dc_state, taper_control,
                   dc_limit, cc_max, fv_uv, new_dc_limit, psy_online, dc_vote,
                   select_work, pps_work, pps_run, elap, sel, ev,
                   debug_writes, lock_vars>>

----------------------------------------------------------------------------
\* Debug attributes

\* gcpm_debug_set_active(): the override index
DebugSetActive ==
    /\ debug_writes < MaxDebugWrites
    /\ debug_writes' = debug_writes + 1
    /\ \E intval \in -1..2 :
         IF intval # -1 /\ (intval < 0 \/ intval >= chg_psy_count)
         THEN UNCHANGED <<force_active, select_work>>
         ELSE IF intval # -1 /\ ~chg_psy_avail[intval]
         THEN UNCHANGED <<force_active, select_work>>
         ELSE /\ force_active' = intval
              /\ select_work' = mod_delayed_work(select_work, 0)
    /\ last' = [op |-> "debug", branch |-> "active", failed |-> {}]
    /\ UNCHANGED <<chg_psy_avail, chg_psy_active, chg_psy_count,
                   tcpm_pps_data, wlc_pps_data, out_ua, out_uv, pps_index,
                   dc_index, dc_state, taper_control, dc_limit, cc_max, fv_uv,
                   init_complete, resume_complete, dc_init_complete,
                   new_dc_limit, psy_online, dc_vote, pps_work, pps_run, elap,
                   sel, ev, boot_vars, lock_vars, init_work>>

\* the values written to the dc_state attribute: DC_DISABLED, and DC_IDLE to
\* reset it
DebugDcStates == {DC_DISABLED, DC_IDLE}

\* gcpm_debug_dc_state_set()
DebugDcStateSet ==
    /\ debug_writes < MaxDebugWrites
    /\ debug_writes' = debug_writes + 1
    /\ \E intval \in DebugDcStates : dc_state' = intval
    /\ select_work' = mod_delayed_work(select_work, 0)
    /\ last' = [op |-> "debug", branch |-> "dc_state", failed |-> {}]
    /\ UNCHANGED <<chg_psy_avail, chg_psy_active, chg_psy_count, force_active,
                   tcpm_pps_data, wlc_pps_data, out_ua, out_uv, pps_index,
                   dc_index, taper_control, dc_limit, cc_max, fv_uv,
                   init_complete, resume_complete, dc_init_complete,
                   new_dc_limit, psy_online, dc_vote, pps_work, pps_run, elap,
                   sel, ev, boot_vars, lock_vars, init_work>>

\* gcpm_debug_dc_limit_demand_set()
DebugDcLimitDemandSet ==
    /\ debug_writes < MaxDebugWrites
    /\ debug_writes' = debug_writes + 1
    /\ \E intval \in {GCPM_DEFAULT_DC_LIMIT_DEMAND, 5000000} :
         /\ dc_limit' = [dc_limit EXCEPT !.demand = intval]
         /\ new_dc_limit' = (new_dc_limit \/ dc_limit.demand # intval)
    /\ last' = [op |-> "debug", branch |-> "dc_limit_demand", failed |-> {}]
    /\ UNCHANGED <<chg_psy_avail, chg_psy_active, chg_psy_count, force_active,
                   tcpm_pps_data, wlc_pps_data, out_ua, out_uv, pps_index,
                   dc_index, dc_state, taper_control, cc_max, fv_uv,
                   init_complete, resume_complete, dc_init_complete,
                   psy_online, dc_vote, select_work, pps_work, pps_run, elap,
                   sel, ev, boot_vars, lock_vars, init_work>>

\* gcpm_debug_pps_stage_set(): the stage of the selected session
DebugPpsStageSet ==
    /\ debug_writes < MaxDebugWrites
    /\ debug_writes' = debug_writes + 1
    /\ \E stage \in {"DISABLED", "NONE", "AVAILABLE", "ACTIVE"} :
         /\ tcpm_pps_data' = IF gcpm_pps_data(Gcpm) = "tcpm"
                             THEN [tcpm_pps_data EXCEPT !.stage = stage]
                             ELSE tcpm_pps_data
         /\ wlc_pps_data' = IF gcpm_pps_data(Gcpm) = "wlc"
                            THEN [wlc_pps_data EXCEPT !.stage = stage]
                            ELSE wlc_pps_data
    /\ pps_work' = mod_delayed_work(pps_work, 0)
    /\ last' = [op |-> "debug", branch |-> "pps_stage", failed |-> {}]
    /\ UNCHANGED <<chg_psy_avail, chg_psy_active, chg_psy_count, force_active,
                   out_ua, out_uv, pps_index, dc_index, dc_state,
                   taper_control, dc_limit, cc_max, fv_uv, init_complete,
                   resume_complete, dc_init_complete, new_dc_limit,
                   psy_online, dc_vote, select_work, pps_run, elap, sel, ev,
                   boot_vars, lock_vars, init_work>>

----------------------------------------------------------------------------
\* The driver from google_cpm_probe() until start-up completes: nothing is
\* found yet, gcpm_init_work() is queued, the debug attributes exist.

\* the stage of a session google_cpm_probe() has only zeroed
ZeroStages == {"NOTSUPP", "DISABLED", "NONE"}

InitBoot ==
    /\ chg_psy_count = 2
    /\ chg_psy_avail = [i \in 0..1 |-> FALSE]
    /\ chg_psy_active = 0
    /\ force_active = -1
    /\ \E st \in ZeroStages :
         /\ tcpm_pps_data = [pps_psy |-> FALSE, stage |-> st]
         /\ wlc_pps_data = [pps_psy |-> FALSE, stage |-> st]
    /\ out_ua = -1 /\ out_uv = -1
    /\ pps_index = 0 /\ dc_index = 0 /\ dc_state = DC_IDLE
    /\ taper_control = FALSE
    /\ dc_limit = DefaultLimits
    /\ cc_max = 0 /\ fv_uv = 0
    /\ init_complete = FALSE /\ resume_complete = FALSE
    /\ dc_init_complete = FALSE
    /\ new_dc_limit = FALSE
    /\ psy_online = [i \in 0..1 |-> i = GCPM_DEFAULT_CHARGER]
    /\ dc_vote = FALSE
    /\ select_work = -1 /\ pps_work = -1 /\ pps_run = FALSE
    /\ init_work = INIT_DELAY_MS
    /\ elap = 0
    /\ last = NoLast
    /\ sel = NoSel
    /\ ev = NoEv
    /\ chg_psy_retries = CHG_PSY_RETRIES
    /\ log_psy_ratelimit = LOG_PSY_RATELIMIT_CNT
    /\ tcpm_phandle \in BOOLEAN /\ tcpm_psy = FALSE
    /\ wlc_dc_name \in BOOLEAN /\ wlc_dc_psy = FALSE
    /\ debug_writes = 0
    /\ chg_psy_lock = "none" /\ pc = [t \in LockTasks |-> "idle"]
    /\ sp = SpIdle

\* the steps taken while start-up is not complete
NextBoot ==
    \/ ~init_complete /\ chg_psy_retries > CHG_PSY_RETRIES - MaxInitRuns
          /\ InitWork
    \/ ~init_complete /\ DebugSetActive
    \/ ~init_complete /\ DebugDcStateSet
    \/ ~init_complete /\ DebugDcLimitDemandSet
    \/ ~init_complete /\ DebugPpsStageSet
    \/ ~init_complete /\ SetProperty
    \/ ~init_complete /\ SelectWork
    \/ ~init_complete /\ PpsDequeue
    \/ ~init_complete /\ PpsWork
    \/ ~init_complete /\ Tick

SpecBoot == InitBoot /\ [][NextBoot]_vars

\* The running controller with the dc_state and active attributes written
\* to, from the
\* moment the charging policy has set its demand
InitDebug ==
    /\ chg_psy_count = 2
    /\ chg_psy_avail = [i \in 0..1 |-> TRUE]
    /\ chg_psy_active = 0
    /\ force_active = -1
    /\ tcpm_pps_data = [pps_psy |-> TRUE, stage |-> "NONE"]
    /\ wlc_pps_data = [pps_psy |-> TRUE, stage |-> "NONE"]
    /\ out_ua = -1 /\ out_uv = -1
    /\ pps_index = 0 /\ dc_index = 0 /\ dc_state = DC_IDLE
    /\ taper_control = FALSE
    /\ dc_limit = DefaultLimits
    /\ cc_max = 3000000 /\ fv_uv = 4400000
    /\ init_complete = TRUE /\ resume_complete = TRUE
    /\ dc_init_complete = TRUE
    /\ new_dc_limit = FALSE
    /\ psy_online = [i \in 0..1 |-> i = GCPM_DEFAULT_CHARGER]
    /\ dc_vote = FALSE
    /\ select_work = 0 /\ pps_work = -1 /\ pps_run = FALSE
    /\ elap = 0
    /\ last = NoLast
    /\ sel = NoSel
    /\ ev = NoEv
    /\ chg_psy_retries = 0 /\ log_psy_ratelimit = LOG_PSY_RATELIMIT_CNT
    /\ tcpm_phandle = TRUE /\ tcpm_psy = TRUE
    /\ wlc_dc_name = TRUE /\ wlc_dc_psy = TRUE
    /\ init_work = -1
    /\ debug_writes = 0
    /\ chg_psy_lock = "none" /\ pc = [t \in LockTasks |-> "idle"]
    /\ sp = SpIdle

NextDebug ==
    \/ PpsDequeue \/ PpsWorkQuiet \/ SelectWork \/ SetDemand
    \/ PsyChanged \/ Tick
    \/ DebugSetActive \/ DebugDcStateSet

SpecDebug == InitDebug /\ [][NextDebug]_vars

----------------------------------------------------------------------------
\* The controller left to itself: start-up has completed with or without a
\* device in the DC slot, the charging policy has set its demand and sets
\* nothing more, no debug attribute is written and every collaborator call
\* on a registered source succeeds, except that the keepalive write to the
\* DC source may return any of KeepAlive.

InitLive ==
    /\ chg_psy_count = 2
    /\ \E dc \in BOOLEAN : chg_psy_avail = [i \in 0..1 |-> i = 0 \/ dc]
    /\ chg_psy_active = 0
    /\ force_active = -1
    /\ tcpm_pps_data = [pps_psy |-> TRUE, stage |-> "NONE"]
    /\ wlc_pps_data = [pps_psy |-> TRUE, stage |-> "NONE"]
    /\ out_ua = -1 /\ out_uv = -1
    /\ pps_index = 0 /\ dc_index = 0 /\ dc_state = DC_IDLE
    /\ taper_control = FALSE
    /\ dc_limit = DefaultLimits
    /\ cc_max = 3000000 /\ fv_uv = 4400000
    /\ init_complete = TRUE /\ resume_complete = TRUE
    /\ dc_init_complete = TRUE
    /\ new_dc_limit = FALSE
    /\ psy_online = [i \in 0..1 |-> i = GCPM_DEFAULT_CHARGER]
    /\ dc_vote = FALSE
    /\ select_work = 0 /\ pps_work = -1 /\ pps_run = FALSE
    /\ elap = 0
    /\ last = NoLast
    /\ sel = NoSel
    /\ ev = NoEv
    /\ chg_psy_retries = 0 /\ log_psy_ratelimit = LOG_PSY_RATELIMIT_CNT
    /\ tcpm_phandle = TRUE /\ tcpm_psy = TRUE
    /\ wlc_dc_name = TRUE /\ wlc_dc_psy = TRUE
    /\ init_work = -1
    /\ debug_writes = 0
    /\ chg_psy_lock = "none" /\ pc = [t \in LockTasks |-> "idle"]
    /\ sp = SpIdle

NextLive == PpsDequeue \/ PpsWorkQuiet \/ SelectWork \/ PsyChanged \/ Tick

\* the workqueue runs a work that is due; a pending timer expires; the boot
\* clock advances
FairLive ==
    /\ WF_vars(PpsDequeue) /\ WF_vars(PpsWorkQuiet) /\ WF_vars(SelectWork)
    /\ SF_vars(Tick /\ select_work' = 0)
    /\ SF_vars(Tick /\ pps_work' = 0)
    /\ SF_vars(Tick /\ elap' > elap)

SpecLive == InitLive /\ [][NextLive]_vars /\ FairLive

----------------------------------------------------------------------------
\* chg_psy_lock: each task that takes the mutex, seen as mutex_lock(), the
\* section it runs holding the mutex, and the exit path it leaves by.

\* the exit paths of each task after mutex_lock(): the selection task
\* returns early when it polls again or runs to its end; the negotiation
\* task returns early when start-up is not complete or leaves by
\* pps_dc_done (pps_dc_reschedule falls into it); gcpm_psy_get_property
\* returns -ENODEV when there is no active source or runs to its end
ExitPaths(t) ==
    CASE t = "select_work" -> {"again", "end"}
      [] t = "pps_work" -> {"spurious", "pps_dc_done"}
      [] t = "init_work" -> {"end"}
      [] t = "set_property" -> {"done"}
      [] t = "get_property" -> {"nodev", "end"}

\* variant: the early return of the selection task keeps the mutex
mutex_unlock_again(t, path) == ~(t = "select_work" /\ path = "again")

\* whether the exit path calls mutex_unlock(): every one does
mutex_unlock(t, path) == TRUE

\* whether a task returns before mutex_lock(): the property handlers do
\* while start-up is not complete
NotReady(t) ==
    t \in {"set_property", "get_property"}
       /\ (~init_complete \/ ~resume_complete)

\* what the calls of the scratch-space interface leave alone
sp_frame ==
    <<chg_psy_avail, chg_psy_active, chg_psy_count, force_active,
      tcpm_pps_data, wlc_pps_data, out_ua, out_uv, pps_index, dc_index,
      dc_state, taper_control, dc_limit, cc_max, fv_uv, dc_init_complete,
      new_dc_limit, psy_online, dc_vote, select_work, pps_work, pps_run,
      elap, sel, ev, boot_vars, init_work, debug_writes>>

lock_frame == <<sp_frame, sp>>

\* a task is started: a property handler returns -EAGAIN at once while
\* start-up is not complete, otherwise the task calls mutex_lock()
LockCall ==
    /\ \E t \in LockTasks :
         /\ pc[t] = "idle"
         /\ IF NotReady(t)
            THEN /\ last' = [op |-> t, branch |-> "eagain", failed |-> {}]
                 /\ pc' = pc
            ELSE /\ last' = NoLast
                 /\ pc' = [pc EXCEPT ![t] = "lock"]
    /\ UNCHANGED <<lock_frame, chg_psy_lock, init_complete, resume_complete>>

\* mutex_lock() returns: the mutex was free
LockAcquire ==
    /\ chg_psy_lock = "none"
    /\ \E t \in LockTasks :
         /\ pc[t] = "lock"
         /\ chg_psy_lock' = t
         /\ pc' = [pc EXCEPT ![t] = "cs"]
    /\ UNCHANGED <<lock_frame, last, init_complete, resume_complete>>

\* the task runs its section and leaves by one of its exit paths; the
\* start-up task marks start-up complete when it has found the default
\* charger
LockExit ==
    /\ \E t \in LockTasks :
         /\ pc[t] = "cs"
         /\ \E path \in ExitPaths(t), found \in BOOLEAN :
              /\ chg_psy_lock' = IF mutex_unlock(t, path) THEN "none"
                                 ELSE chg_psy_lock
              /\ init_complete' = (init_complete
                                     \/ (t = "init_work" /\ found))
              /\ resume_complete' = (resume_complete
                                       \/ (t = "init_work" /\ found))
              /\ last' = [op |-> t, branch |-> path, failed |-> {}]
         /\ pc' = [pc EXCEPT ![t] = "idle"]
    /\ UNCHANGED lock_frame

NextLock == LockCall \/ LockAcquire \/ LockExit

SpecLock == InitBoot /\ [][NextLock]_vars

----------------------------------------------------------------------------
\* The entry points on their own: gcpm_psy_set_property(),
\* gcpm_psy_get_property() and gcpm_psy_changed() called on the states the
\* controller can be in when they arrive; every call is recorded in ev.

EvDcStates ==
    {DC_DISABLED, DC_IDLE, DC_ENABLE, DC_RUNNING, DC_ENABLE_PASSTHROUGH,
     DC_PASSTHROUGH}

InitEvents ==
    /\ chg_psy_count = 2
    /\ chg_psy_avail = [i \in 0..1 |-> TRUE]
    /\ init_complete \in BOOLEAN /\ resume_complete = init_complete
    /\ dc_init_complete \in BOOLEAN
    /\ chg_psy_active \in (IF init_complete THEN -1..1
                            ELSE {GCPM_DEFAULT_CHARGER})
    /\ force_active = -1
    /\ dc_state \in EvDcStates
    /\ dc_index = IF dc_state > DC_IDLE THEN GCPM_INDEX_DC_ENABLE
                  ELSE GCPM_DEFAULT_CHARGER
    /\ pps_index = IF dc_state \in {DC_PASSTHROUGH, DC_RUNNING}
                   THEN PPS_INDEX_TCPM ELSE 0
    /\ tcpm_pps_data = [pps_psy |-> TRUE,
                        stage |-> IF pps_index = PPS_INDEX_TCPM
                                  THEN "ACTIVE" ELSE "NONE"]
    /\ wlc_pps_data = [pps_psy |-> TRUE, stage |-> "NONE"]
    /\ out_ua = -1 /\ out_uv = -1
    /\ taper_control \in (IF init_complete THEN BOOLEAN ELSE {FALSE})
    /\ dc_limit = DefaultLimits
    /\ cc_max \in (IF init_complete THEN CcMaxValues ELSE {0})
    /\ fv_uv \in (IF init_complete THEN {0} \cup FvUvValues ELSE {0})
    /\ new_dc_limit \in BOOLEAN
    /\ psy_online = [i \in 0..1 |-> i = chg_psy_active]
    /\ dc_vote = (dc_state \in {DC_PASSTHROUGH, DC_RUNNING})
    /\ select_work \in {-1, 5000}
    /\ pps_work \in {-1, DC_RUN_DELAY_MS}
    /\ pps_run = FALSE
    /\ elap = 0
    /\ last = NoLast
    /\ sel = NoSel
    /\ ev = NoEv
    /\ chg_psy_retries = 0 /\ log_psy_ratelimit = LOG_PSY_RATELIMIT_CNT
    /\ tcpm_phandle = TRUE /\ tcpm_psy = TRUE
    /\ wlc_dc_name = TRUE /\ wlc_dc_psy = TRUE
    /\ init_work = -1
    /\ debug_writes = 0
    /\ chg_psy_lock = "none" /\ pc = [t \in LockTasks |-> "idle"]
    /\ sp = SpIdle

EvSetProperty ==
    /\ \E psp \in SetProperties :
       \E val \in SetPropertyValues(psp), route_ok \in RouteOutcomes(psp) :
       \E r \in {gcpm_psy_set_property(psp, val, route_ok)} :
            /\ SetPropertyStep(r)
            /\ ev' = [op |-> "set_property", arg |-> psp, val |-> val,
                      ret |-> r.ret]
    /\ UNCHANGED <<static_vars, init_work>>

EvGetProperty ==
    /\ \E route_ok \in BOOLEAN :
         ev' = [op |-> "get_property", arg |-> "", val |-> 0,
                ret |-> gcpm_psy_get_property(route_ok)]
    /\ UNCHANGED <<static_vars, init_work, chg_psy_active, tcpm_pps_data,
                   wlc_pps_data, out_ua, out_uv, pps_index, dc_index,
                   dc_state, taper_control, cc_max, fv_uv, new_dc_limit,
                   psy_online, dc_vote, select_work, pps_work, pps_run, elap,
                   last>>

EvPsyChanged ==
    /\ init_complete
    /\ \E name \in PsyNames :
         /\ PsyChangedStep(name)
         /\ ev' = [op |-> "psy_changed", arg |-> name, val |-> 0, ret |-> 0]
    /\ UNCHANGED <<static_vars, init_work>>

NextEvents == EvSetProperty \/ EvGetProperty \/ EvPsyChanged

SpecEvents == InitEvents /\ [][NextEvents]_vars

----------------------------------------------------------------------------
\* Properties of the selection policy (checked under SpecSelect)

\* the controller state other than the record of the last evaluation
ctrl == <<chg_psy_avail, chg_psy_active, chg_psy_count, force_active,
          tcpm_pps_data, wlc_pps_data, out_ua, out_uv, pps_index, dc_index,
          dc_state, taper_control, dc_limit, cc_max, fv_uv, init_complete,
          resume_complete, dc_init_complete, new_dc_limit, psy_online,
          dc_vote, select_work, pps_work, pps_run, elap>>

SelNoOverride == sel.done /\ force_active < 0
SelPositiveDemand == cc_max > 0 /\ fv_uv > 0

C4_FloorHysteresis ==
    (/\ SelNoOverride /\ SelPositiveDemand
     /\ dc_limit.vbatt_min # 0
     /\ dc_limit.vbatt_low <= sel.vbatt /\ sel.vbatt < dc_limit.vbatt_min)
    => /\ dc_index = GCPM_INDEX_DC_ENABLE
            => sel.result = GCPM_INDEX_DC_ENABLE
       /\ dc_index = GCPM_DEFAULT_CHARGER => sel.result = -EAGAIN

C4_Witness ==
    /\ SelNoOverride /\ SelPositiveDemand
    /\ dc_limit.vbatt_min = 3600000 /\ dc_limit.vbatt_low = 3400000
    /\ sel.vbatt = 3550000
    /\ dc_index = GCPM_INDEX_DC_ENABLE
    /\ sel.result = GCPM_INDEX_DC_ENABLE

\* C5: ceiling: with no override, a positive demand, vbatt_max = 4400 mV and
\* vbatt_high = 4350 mV, gcpm_chg_select returns the DC index for dc_index =
\* DC and a reading of 4380 mV, and the default index for dc_index =
\* default and a reading of 4420 mV.
C5_Ceiling ==
    (/\ SelNoOverride /\ SelPositiveDemand
     /\ dc_limit.vbatt_max = 4400000 /\ dc_limit.vbatt_high = 4350000)
    => /\ (dc_index = GCPM_INDEX_DC_ENABLE /\ sel.vbatt = 4380000)
            => sel.result = GCPM_INDEX_DC_ENABLE
       /\ (dc_index = GCPM_DEFAULT_CHARGER /\ sel.vbatt = 4420000)
            => sel.result = GCPM_DEFAULT_CHARGER

C5_Witness ==
    /\ SelNoOverride /\ SelPositiveDemand
    /\ dc_limit.vbatt_max = 4400000 /\ dc_limit.vbatt_high = 4350000
    /\ dc_index = GCPM_INDEX_DC_ENABLE /\ sel.vbatt = 4380000
    /\ sel.result = GCPM_INDEX_DC_ENABLE

SelNoThresholds ==
    /\ SelNoOverride
    /\ dc_limit.vbatt_min = 0 /\ dc_limit.vbatt_max = 0
    /\ chg_psy_count >= 2

\* C6: with no voltage thresholds, no override and at least two source
\* slots: when cc_max > 0 and fv_uv > 0 gcpm_chg_select returns the DC index
\* exactly when (cc_max/1000)*(fv_uv/1000) > dc_limit_demand and the default
\* index otherwise; when cc_max <= 0 or fv_uv <= 0 it returns the default
\* index whatever the product is.
C6_DemandOnly ==
    SelNoThresholds =>
        IF SelPositiveDemand
        THEN sel.result =
               (IF (cc_max \div 1000) * (fv_uv \div 1000) > dc_limit.demand
                THEN GCPM_INDEX_DC_ENABLE ELSE GCPM_DEFAULT_CHARGER)
        ELSE sel.result = GCPM_DEFAULT_CHARGER

C6_Witness ==
    /\ SelNoThresholds
    /\ cc_max = 3000000 /\ fv_uv = 4400000 /\ dc_limit.demand = 5000000
    /\ sel.result = GCPM_INDEX_DC_ENABLE

\* C6 as stated: the DC index exactly when the product exceeds
\* dc_limit_demand, with no condition on the sign of cc_max and fv_uv
C6_Original ==
    SelNoThresholds =>
        sel.result =
          (IF (IF cc_max >= 0 THEN cc_max \div 1000
               ELSE -((-cc_max) \div 1000))
              * (IF fv_uv >= 0 THEN fv_uv \div 1000
                 ELSE -((-fv_uv) \div 1000)) > dc_limit.demand
           THEN GCPM_INDEX_DC_ENABLE ELSE GCPM_DEFAULT_CHARGER)

----------------------------------------------------------------------------
\* Properties of the controller (checked under Spec)

\* a step that is one run of the negotiation task, of the selection task
PpsStep == pps_run /\ ~pps_run'
SelectStep == select_work = 0 /\ last'.op = "select_work"

\* the last run of the negotiation task took one of these branches
LastPps(branches) == last.op = "pps_work" /\ last.branch \in branches

\* the last run made a call of this property that failed
LastFailed(prop) == \E f \in last.failed : f[1] = prop

BothNotSupp ==
    tcpm_pps_data.stage = "NOTSUPP" /\ wlc_pps_data.stage = "NOTSUPP"

\* the branches of the negotiation task that tear the session down, and
\* those that call gcpm_pps_work()
StopBranches == {"spurious", "retry_disable", "fail_pps_offline", "stop_done"}
DetectBranches ==
    {"prog_retry", "prog_timeout", "active_retry", "active_timeout",
     "handover", "handover_fail", "steady"}

\* C1: in every reachable state at most one registered charge source is
\* online.
C1_AtMostOneOnline ==
    \A i, j \in 0..(chg_psy_count - 1) :
        (psy_online[i] /\ psy_online[j]) => i = j

C1_Witness ==
    /\ LastPps({"handover"})
    /\ psy_online[GCPM_INDEX_DC_ENABLE] /\ ~psy_online[GCPM_DEFAULT_CHARGER]
    /\ chg_psy_active = GCPM_INDEX_DC_ENABLE

TornDown ==
    /\ dc_state \in {DC_IDLE, DC_DISABLED}
    /\ chg_psy_active = GCPM_DEFAULT_CHARGER
    /\ psy_online[GCPM_DEFAULT_CHARGER]
    /\ pps_index = 0

\* C3: tear-down is idempotent: when the session is torn down (dc_state Idle
\* or Disabled, default source online and active, pps_index 0), a run of
\* the negotiation task with dc_index <= 0 leaves dc_state, dc_index,
\* pps_index, the active source and the DC vote unchanged and does not queue
\* the negotiation task.
C3_TearDownIdempotent ==
    [][(PpsStep /\ TornDown /\ dc_index <= 0) =>
          /\ UNCHANGED <<dc_state, dc_index, pps_index, chg_psy_active,
                         dc_vote>>
          /\ pps_work' = pps_work]_vars

C3_Witness ==
    /\ LastPps({"spurious"}) /\ TornDown /\ dc_index <= 0 /\ pps_work = -1

\* C7: when both PPS sessions are NotSupported and the DC session is Idle,
\* no step changes that: the selection step leaves dc_state Idle (it does
\* not move to Disabled) and dc_state never becomes EnablePassthrough.
C7_IdleNotSuppStays ==
    [][(dc_state = DC_IDLE /\ BothNotSupp) =>
          (dc_state' = DC_IDLE /\ BothNotSupp')]_vars

C7_Witness ==
    /\ last.op = "select_work" /\ last.branch = "none"
    /\ dc_state = DC_IDLE /\ BothNotSupp
    /\ cc_max > 0 /\ fv_uv > 0 /\ ~taper_control

\* C7 as stated: the selection step moves dc_state from Idle to Disabled
C7_Original ==
    [][(SelectStep /\ dc_state = DC_IDLE /\ BothNotSupp) =>
          dc_state' = DC_DISABLED]_vars

\* C8 as stated: after a handover in which the write of
\* CONSTANT_CHARGE_VOLTAGE_MAX failed, dc_state is EnablePassthrough, the DC
\* source is not online and not active, and the task is queued again.
C8_Original ==
    (LastPps({"handover_fail"}) /\ LastFailed("CONSTANT_CHARGE_VOLTAGE_MAX"))
    => /\ dc_state = DC_ENABLE_PASSTHROUGH
       /\ ~psy_online[GCPM_INDEX_DC_ENABLE]
       /\ chg_psy_active # GCPM_INDEX_DC_ENABLE
       /\ pps_work >= 0

\* C9: in Passthrough, the run of the negotiation task that finds the PPS
\* source offline clears dc_index and queues the task again after
\* DC_ERROR_RETRY_MS, and leaves dc_state, the active source, what is online
\* and the DC vote as they were; the default source is made the active
\* source by the tear-down run that follows, when it completes.
C9_OfflineThenTearDown ==
    [][PpsStep =>
         /\ (dc_state = DC_PASSTHROUGH /\ last'.branch = "pps_offline") =>
                /\ dc_index' = GCPM_DEFAULT_CHARGER
                /\ UNCHANGED <<dc_state, chg_psy_active, psy_online, dc_vote>>
                /\ pps_work' \in {0, DC_ERROR_RETRY_MS}
         /\ last'.branch = "stop_done" =>
                /\ chg_psy_active' = GCPM_DEFAULT_CHARGER
                /\ ~psy_online'[GCPM_INDEX_DC_ENABLE]
                /\ ~dc_vote'
                /\ dc_state' \in {DC_IDLE, DC_DISABLED}]_vars

C9_Witness ==
    /\ LastPps({"pps_offline"}) /\ pps_index # 0
    /\ dc_state = DC_PASSTHROUGH /\ dc_index = GCPM_DEFAULT_CHARGER
    /\ chg_psy_active = GCPM_INDEX_DC_ENABLE

\* C9 as stated: after the run that finds the PPS source offline the
\* default source is online and active and dc_index is cleared
C9_Original ==
    (LastPps({"pps_offline"}) /\ pps_index # 0)
    => /\ chg_psy_active = GCPM_DEFAULT_CHARGER
       /\ psy_online[GCPM_DEFAULT_CHARGER]
       /\ dc_index = GCPM_DEFAULT_CHARGER

OnlineErrorBranches == {"retry_disable", "keepalive_fail", "handover_fail"}

\* the last run wrote ONLINE = 1 to a source and the write failed
LastOnlineFailed ==
    /\ last.op = "pps_work"
    /\ \E f \in last.failed : f[1] = "ONLINE" /\ f[3] = 1

\* C11: when gcpm_chg_set_online() has taken the current source offline and
\* its ONLINE = 1 write to the requested source fails, the call returns an
\* error (the task takes an error branch), no source is online and
\* chg_psy_active is -1.
C11_PartialFailure ==
    LastOnlineFailed =>
        /\ last.branch \in OnlineErrorBranches
        /\ chg_psy_active = -1
        /\ \A i \in 0..(chg_psy_count - 1) : ~psy_online[i]

C11_Witness ==
    /\ LastPps({"keepalive_fail"})
    /\ <<"ONLINE", GCPM_DEFAULT_CHARGER, 1>> \in last.failed
    /\ chg_psy_active = -1
    /\ ~psy_online[GCPM_INDEX_DC_ENABLE]

\* C13 as stated: whenever the default source is the active source the DC
\* vote is not asserted
C13_Original ==
    chg_psy_active = GCPM_DEFAULT_CHARGER => ~dc_vote

\* the position in the calls of a run of the first call of a property, of
\* the first call of a property with a value (0: there is no such call)
FirstCall(calls, prop) ==
    LET S == {i \in 1..Len(calls) : calls[i][1] = prop}
    IN IF S = {} THEN 0 ELSE CHOOSE i \in S : \A j \in S : i <= j

FirstCallOf(calls, prop, val) ==
    LET S == {i \in 1..Len(calls) : calls[i][1] = prop /\ calls[i][3] = val}
    IN IF S = {} THEN 0 ELSE CHOOSE i \in S : \A j \in S : i <= j

\* the run of the negotiation task that is about to start tears down
TearDownDue ==
    /\ pps_run /\ init_complete /\ resume_complete
    /\ dc_index <= 0 /\ dc_state > DC_IDLE

HandoverDue ==
    /\ pps_run /\ init_complete /\ resume_complete
    /\ dc_index > 0 /\ dc_state = DC_ENABLE_PASSTHROUGH

\* C20 as stated: in a handover the active source is taken offline, then
\* the target voltage, the target current and the input current limit are
\* written, then the DC vote is cast, and ONLINE = 1 is written to the DC
\* source last
C20_Original ==
    HandoverDue =>
        \A in \in PpsWorkInputs :
           LET r == gcpm_pps_wlc_dc_work(Gcpm, in.F, in.prog_online, in.vbatt,
                                         in.ka, in.tw, in.ww, in.upd)
               c == r.g.calls
               fv == FirstCall(c, "CONSTANT_CHARGE_VOLTAGE_MAX")
               cc == FirstCall(c, "CONSTANT_CHARGE_CURRENT_MAX")
               iin == FirstCall(c, "CURRENT_MAX")
               vote == FirstCallOf(c, "MODE_VOTE", 1)
               online == FirstCallOf(c, "ONLINE", 1)
           IN r.branch = "handover" =>
                /\ FirstCallOf(c, "ONLINE", 0) < fv
                /\ fv < cc /\ cc < iin /\ iin < vote /\ vote < online

----------------------------------------------------------------------------
\* Properties of the entry points (checked under SpecEvents)

\* the properties that carry the demand of the upstream charging policy
DemandProperties ==
    {"CONSTANT_CHARGE_CURRENT_MAX", "CONSTANT_CHARGE_VOLTAGE_MAX",
     "VOLTAGE_MAX", "ONLINE", "CHARGE_DISABLE", "TAPER_CONTROL"}

\* C15 as stated: once start-up is complete, after every accepted
\* set-property call of a demand property the selection task is queued with
\* no delay
C15_Original ==
    (/\ ev.op = "set_property" /\ ev.arg \in DemandProperties
     /\ ev.ret # -EAGAIN /\ dc_init_complete)
    => select_work = 0

\* the notification recorded in ev is one the handler looks at
EvTracked ==
    /\ chg_psy_active # -1
    /\ ev.arg \in {chg_psy_names(chg_psy_active),
                    chg_psy_names(GCPM_DEFAULT_CHARGER), "tcpm", "wlc"}

\* C16: a property-change notification never queues the selection task;
\* when there is an active source and the notification comes from the
\* active source, the default source or a PPS source, it queues the
\* negotiation task with no delay exactly when dc_state is Passthrough or
\* Running; in every other case it changes nothing.
C16_Notification ==
    [][ev'.op = "psy_changed" =>
         /\ select_work' = select_work
         /\ pps_work' =
               IF EvTracked' /\ dc_state \in {DC_PASSTHROUGH, DC_RUNNING}
               THEN 0 ELSE pps_work
         /\ UNCHANGED <<dc_state, dc_index, pps_index, chg_psy_active>>]_vars

C16_Witness ==
    /\ ev.op = "psy_changed" /\ ev.arg = "chg0"
    /\ chg_psy_active = GCPM_INDEX_DC_ENABLE /\ dc_state = DC_PASSTHROUGH
    /\ pps_work = 0 /\ select_work = -1

\* C16 as stated: a notification that concerns the active source or the
\* default source queues the selection task, and queues the negotiation
\* task with no delay exactly when dc_state is Passthrough or Running
C16_Original ==
    [][(/\ ev'.op = "psy_changed"
        /\ \/ ev'.arg = chg_psy_names(GCPM_DEFAULT_CHARGER)
           \/ (chg_psy_active # -1
                  /\ ev'.arg = chg_psy_names(chg_psy_active)))
       => /\ select_work' = 0
          /\ (pps_work' = 0 /\ pps_work # 0)
                => dc_state \in {DC_PASSTHROUGH, DC_RUNNING}
          /\ dc_state \in {DC_PASSTHROUGH, DC_RUNNING} => pps_work' = 0]_vars


----------------------------------------------------------------------------
\* Properties of the running controller with the debug attributes
\* (checked under SpecDebug)

\* a write to the dc_state debug attribute has just been made
DebugDcStateWritten == last.op = "debug" /\ last.branch = "dc_state"

\* C17: Disabled is terminal: once dc_state is DC_DISABLED no selection,
\* negotiation, set-property or other debug step changes it; only a write
\* to the dc_state debug attribute takes it out of DC_DISABLED
C17_DisabledTerminal ==
    [][(dc_state = DC_DISABLED /\ dc_state' # DC_DISABLED)
          => DebugDcStateWritten']_vars

\* C17 witness: the selection task has run with direct charging wanted
\* while dc_state was DC_DISABLED and has left it so
C17_Witness ==
    /\ dc_state = DC_DISABLED
    /\ last.op = "select_work" /\ last.branch = "disabled"
    /\ ~taper_control

\* the same without the debug attributes, every collaborator call failing
\* or not (checked under Spec)
DisabledStays == [][dc_state = DC_DISABLED => dc_state' = DC_DISABLED]_vars

----------------------------------------------------------------------------
\* Properties of the driver before start-up completes (checked under
\* SpecBoot)

\* C12 as stated: while start-up has not completed a run of the selection
\* task or of the negotiation task changes none of dc_state, dc_index,
\* pps_index and the active source
C12_Original ==
    [][(~init_complete /\ (SelectStep \/ PpsStep))
          => UNCHANGED <<dc_state, dc_index, pps_index, chg_psy_active>>]_vars

----------------------------------------------------------------------------
\* Convergence (checked under SpecLive)

\* C14 as stated: the controller never remains forever with no active
\* source: whenever chg_psy_active is -1 a source becomes active later
C14_Original == []<>(chg_psy_active # -1)

----------------------------------------------------------------------------
\* Lock discipline (checked under SpecLock)

----------------------------------------------------------------------------
\* Further properties of the controller (checked under Spec)

\* C21 as stated: a run of the negotiation task in which a step of the
\* handover fails ends with dc_state DC_ENABLE_PASSTHROUGH, the DC vote off
\* and the active and online sources of the registry as they were before it
C21_Original ==
    [][(PpsStep /\ last'.branch = "handover_fail")
          => /\ dc_state' = DC_ENABLE_PASSTHROUGH
             /\ ~dc_vote'
             /\ chg_psy_active' = chg_psy_active
             /\ psy_online' = psy_online]_vars

\* C22: dc_state goes from DC_IDLE to DC_ENABLE_PASSTHROUGH only in a run of
\* the selection task in which gcpm_chg_select returned the DC index,
\* taper_control is false and one of the PPS sessions is not NOTSUPP; that
\* run sets dc_index to the DC index, pps_index to 0, out_ua and out_uv to
\* -1 and records the start time of the session
C22_IdleToEnable ==
    [][(dc_state = DC_IDLE /\ dc_state' = DC_ENABLE_PASSTHROUGH)
          => /\ SelectStep
             /\ ~taper_control
             /\ ~BothNotSupp
             /\ \E v \in VBattReadings :
                    gcpm_chg_select(v) = GCPM_INDEX_DC_ENABLE
             /\ dc_index' = GCPM_INDEX_DC_ENABLE
             /\ pps_index' = 0
             /\ out_ua' = -1 /\ out_uv' = -1
             /\ elap' = 0]_vars

\* C22 witness: the selection task has just started a session
C22_Witness ==
    /\ last.op = "select_work" /\ last.branch = "start"
    /\ dc_state = DC_ENABLE_PASSTHROUGH
    /\ dc_index = GCPM_INDEX_DC_ENABLE
    /\ pps_index = 0 /\ out_ua = -1 /\ out_uv = -1 /\ elap = 0

\* C23 as stated: the run of the selection task that starts a session
\* queues the negotiation task with the grace delay whatever was pending,
\* and the negotiation task does not call gcpm_pps_work or
\* pps_update_adapter for the session before that delay has expired: the
\* step that follows the start of a session, when no time has passed, is not
\* a run of the negotiation task that negotiates
C23_Original ==
    [][/\ (SelectStep /\ last'.branch = "start") => pps_work' = 5000
       /\ (last.op = "select_work" /\ last.branch = "start")
            => ~(PpsStep /\ last'.branch \in DetectBranches)]_vars

\* the result of the run of the negotiation task that reads the inputs in
RunPps(in) ==
    gcpm_pps_wlc_dc_work(Gcpm, in.F, in.prog_online, in.vbatt, in.ka, in.tw,
                         in.ww, in.upd)

\* C24: a run of the negotiation task in DC_PASSTHROUGH that finds the PPS
\* source online and an active source queues the selection task with no
\* delay exactly when gcpm_chg_select differs from dc_index; a run of the
\* selection task in DC_PASSTHROUGH that selects the default index sets
\* dc_index to it and queues the negotiation task with no delay; and the
\* run of the negotiation task that follows tears the session down: when
\* its calls succeed it ends in DC_IDLE with the default source active,
\* the DC source offline and the DC vote off
C24_PassthroughRecheck ==
    /\ (pps_run /\ dc_state = DC_PASSTHROUGH /\ dc_index > 0)
          => \A in \in PpsWorkInputs :
                (in.prog_online /\ gcpm_pps_data(Gcpm) # "none"
                                /\ gcpm_chg_get_active(Gcpm))
                  => RunPps(in).select_now
                        = (gcpm_chg_select(in.vbatt) # dc_index)
    /\ (select_work = 0 /\ dc_state = DC_PASSTHROUGH /\ dc_index > 0
                        /\ ~taper_control)
          => \A v \in VBattReadings :
                gcpm_chg_select(v) = GCPM_DEFAULT_CHARGER
                  => LET r == gcpm_chg_select_work(Gcpm, gcpm_chg_select(v))
                     IN /\ r.g.dc_index = GCPM_DEFAULT_CHARGER
                        /\ r.g.dc_state = DC_PASSTHROUGH
                        /\ r.pps_ms = 0
    /\ (pps_run /\ dc_state = DC_PASSTHROUGH
                /\ dc_index = GCPM_DEFAULT_CHARGER)
          => \A in \in PpsWorkInputs :
                LET r == RunPps(in)
                IN /\ r.branch \in StopBranches
                   /\ in.F = {} =>
                        /\ r.branch = "stop_done"
                        /\ r.g.dc_state = DC_IDLE
                        /\ r.g.active = GCPM_DEFAULT_CHARGER
                        /\ ~r.g.online[GCPM_INDEX_DC_ENABLE]
                        /\ ~r.g.vote

\* C24 witness: a run of the negotiation task in DC_PASSTHROUGH has pinged
\* the DC source and left the selection task queued with no delay
C24_Witness ==
    /\ LastPps({"keepalive"})
    /\ dc_state = DC_PASSTHROUGH /\ dc_index = GCPM_INDEX_DC_ENABLE
    /\ select_work = 0
    /\ \E v \in VBattReadings : gcpm_chg_select(v) # dc_index

\* C25 (as stated): a keepalive that fails in DC_PASSTHROUGH is followed,
\* after finitely many runs of the negotiation task, by a keepalive that
\* succeeds, by the default source made the active one, or by the end of
\* the session
C25_Original ==
    (dc_state = DC_PASSTHROUGH /\ LastPps({"keepalive_busy"}))
      ~> \/ LastPps({"keepalive", "keepalive_fail", "dc_offline"})
         \/ chg_psy_active = GCPM_DEFAULT_CHARGER
         \/ dc_state # DC_PASSTHROUGH

----------------------------------------------------------------------------
\* Further properties of the selection policy (checked under SpecSelect)

\* C27: with no override and cc_max <= 0 or fv_uv <= 0, gcpm_chg_select
\* returns the default index whatever the battery voltage reads and
\* whatever dc_index is, and the run of the selection task that uses the
\* result does not move dc_state to DC_ENABLE_PASSTHROUGH
C27_NoDemandDefault ==
    (force_active < 0 /\ ~SelPositiveDemand)
      => \A v \in SelVBattReadings :
            /\ gcpm_chg_select(v) = GCPM_DEFAULT_CHARGER
            /\ dc_state # DC_ENABLE_PASSTHROUGH
                 => gcpm_chg_select_work(Gcpm, gcpm_chg_select(v)).g.dc_state
                      # DC_ENABLE_PASSTHROUGH

\* C27 witness: a call with a negative demand, the DC index selected before
\* and a battery voltage in the DC range
C27_Witness ==
    /\ SelNoOverride /\ sel.result = GCPM_DEFAULT_CHARGER
    /\ cc_max < 0 /\ fv_uv < 0
    /\ dc_index = GCPM_INDEX_DC_ENABLE /\ dc_state = DC_IDLE
    /\ dc_limit = DefaultLimits /\ sel.vbatt = 4000000

\* the voltage thresholds are configured: gcpm_chg_select reads the voltage
SelThresholds ==
    gcpm_chg_get_default /\ (dc_limit.vbatt_max # 0 \/ dc_limit.vbatt_min # 0)

\* C28: with thresholds configured, no override and a positive demand, a
\* reading of the battery voltage below vbatt_low makes gcpm_chg_select
\* return -EAGAIN, whatever dc_index and the demand are
C28_BelowLowRetry ==
    (SelNoOverride /\ SelPositiveDemand /\ SelThresholds
       /\ dc_limit.vbatt_low # 0
       /\ sel.vbatt >= 0 /\ sel.vbatt < dc_limit.vbatt_low)
      => sel.result = -EAGAIN

\* C28 witness: a call below vbatt_low while the DC index is selected
C28_Witness ==
    /\ SelNoOverride /\ SelPositiveDemand /\ SelThresholds
    /\ dc_limit.vbatt_low # 0
    /\ sel.vbatt >= 0 /\ sel.vbatt < dc_limit.vbatt_low
    /\ dc_index = GCPM_INDEX_DC_ENABLE
    /\ sel.result = -EAGAIN

----------------------------------------------------------------------------
\* The selection task when the battery voltage cannot be read (checked
\* under Spec)

\* a run of the selection task is due, with thresholds configured, no
\* override and a positive demand
SelectDue ==
    /\ select_work = 0
    /\ force_active < 0 /\ SelPositiveDemand /\ SelThresholds

\* the run of the selection task whose read of the battery voltage fails
SelectNoRead == gcpm_chg_select_work(Gcpm, gcpm_chg_select(-EIO))

\* C29 (as stated): when the read of the battery voltage fails,
\* gcpm_chg_select returns dc_index and the run of the selection task
\* changes neither dc_state nor dc_index nor the active source
C29_Original ==
    SelectDue
      => /\ gcpm_chg_select(-EIO) = dc_index
         /\ SelectNoRead.g.dc_state = dc_state
         /\ SelectNoRead.g.dc_index = dc_index
         /\ SelectNoRead.g.active = chg_psy_active

\* C29 (amended): when the read of the battery voltage fails,
\* gcpm_chg_select returns dc_index and the run of the selection task
\* changes neither dc_state nor the active source; it keeps dc_index when
\* taper_control is not set and a PPS source may support PPS; otherwise, in
\* a session under way, it sets dc_index to -1 (taper_control set) or to
\* the default index, and outside one it keeps dc_index
C29_ReadFailureHolds ==
    SelectDue
      => /\ gcpm_chg_select(-EIO) = dc_index
         /\ SelectNoRead.g.dc_state = dc_state
         /\ SelectNoRead.g.active = chg_psy_active
         /\ (~taper_control /\ ~BothNotSupp)
               => SelectNoRead.g.dc_index = dc_index
         /\ (taper_control \/ BothNotSupp)
               => SelectNoRead.g.dc_index
                    = IF dc_state > DC_IDLE /\ dc_index > 0
                      THEN (IF taper_control THEN -1
                            ELSE GCPM_DEFAULT_CHARGER)
                      ELSE dc_index

\* C29 witness: a run of the selection task is due in a session under way
\* with taper_control not set
C29_Witness ==
    /\ SelectDue /\ ~taper_control
    /\ dc_state = DC_PASSTHROUGH /\ dc_index = GCPM_INDEX_DC_ENABLE
    /\ SelectNoRead.branch = "keep"

----------------------------------------------------------------------------
\* The hard ceiling of the selection policy (checked under SpecSelect)

\* C30 (as stated): with no override and a positive demand, a reading of
\* the battery voltage above vbatt_max while dc_index is not the DC index
\* makes gcpm_chg_select return the default index
C30_Original ==
    (SelNoOverride /\ SelPositiveDemand /\ SelThresholds
       /\ dc_limit.vbatt_max # 0 /\ sel.vbatt > dc_limit.vbatt_max
       /\ dc_index # GCPM_INDEX_DC_ENABLE)
      => sel.result = GCPM_DEFAULT_CHARGER

----------------------------------------------------------------------------
\* The last rules of the selection policy (checked under SpecSelect)

\* a call with thresholds configured, no override, a positive demand, two
\* source slots and a battery voltage that was read
SelRead ==
    /\ SelNoOverride /\ SelPositiveDemand /\ SelThresholds
    /\ chg_psy_count >= 2 /\ sel.vbatt >= 0

\* none of the voltage rules of gcpm_chg_select applies to the reading
SelNoRule ==
    /\ ~(dc_limit.vbatt_low # 0 /\ sel.vbatt < dc_limit.vbatt_low)
    /\ ~(dc_limit.vbatt_min # 0 /\ sel.vbatt < dc_limit.vbatt_min)
    /\ ~(dc_limit.vbatt_high # 0 /\ sel.vbatt > dc_limit.vbatt_high)
    /\ ~(dc_limit.vbatt_max # 0 /\ sel.vbatt > dc_limit.vbatt_max)
    /\ ~(dc_limit.vbatt_min # 0 /\ sel.vbatt > dc_limit.vbatt_min)

\* C31 (as stated): a voltage above vbatt_min and not above vbatt_high
\* returns the DC index whatever the demand threshold is, and a voltage no
\* rule applies to returns the default index
C31_Original ==
    SelRead
      => /\ (dc_limit.vbatt_min # 0 /\ sel.vbatt > dc_limit.vbatt_min
               /\ sel.vbatt <= dc_limit.vbatt_high)
              => sel.result = GCPM_INDEX_DC_ENABLE
         /\ SelNoRule => sel.result = GCPM_DEFAULT_CHARGER

\* C31 (amended): a voltage above vbatt_min and not above vbatt_high
\* returns the DC index whatever the demand threshold is, and a voltage no
\* rule applies to returns the index the demand gives: the DC index when
\* the battery demand is above the demand threshold, the default index
\* otherwise
C31_FinalRules ==
    SelRead
      => /\ (dc_limit.vbatt_min # 0 /\ sel.vbatt > dc_limit.vbatt_min
               /\ sel.vbatt <= dc_limit.vbatt_high)
              => sel.result = GCPM_INDEX_DC_ENABLE
         /\ SelNoRule
              => sel.result
                   = IF batt_demand_of(cc_max, fv_uv) > dc_limit.demand
                     THEN GCPM_INDEX_DC_ENABLE
                     ELSE GCPM_DEFAULT_CHARGER

\* C31 witness: a reading equal to vbatt_min with a demand above the
\* threshold
C31_Witness ==
    /\ SelRead /\ SelNoRule
    /\ sel.vbatt = dc_limit.vbatt_min
    /\ batt_demand_of(cc_max, fv_uv) > dc_limit.demand
    /\ dc_limit.demand > 0
    /\ dc_index = GCPM_DEFAULT_CHARGER
    /\ sel.result = GCPM_INDEX_DC_ENABLE

----------------------------------------------------------------------------
\* The PPS sessions (checked under Spec)

\* a run of the negotiation task that calls gcpm_pps_work() is under way
DetectRun ==
    /\ pps_run /\ init_complete /\ resume_complete
    /\ dc_index > 0 /\ dc_state # DC_PASSTHROUGH

\* the stage of the session pps_index names in g ("" when it names none)
PpsStageOf(g, index) ==
    IF index = PPS_INDEX_TCPM THEN g.tcpm.stage
    ELSE IF index = PPS_INDEX_WLC THEN g.wlc.stage
    ELSE ""

\* C32 (as stated): gcpm_pps_work keeps naming the session pps_index names
\* while that session stays Active, and when both sessions become Active
\* in one call it names the tcpm session
C32_Original ==
    DetectRun
      => \A in \in PpsWorkInputs :
            LET g1 == gcpm_pps_work(Gcpm, in.tw, in.ww)
            IN /\ (pps_index # 0 /\ PpsStageOf(Gcpm, pps_index) = "ACTIVE"
                     /\ PpsStageOf(g1, pps_index) = "ACTIVE"
                     /\ in.tw.pps_ui >= 0 /\ in.ww.pps_ui >= 0)
                    => g1.pps_index = pps_index
               /\ (pps_index = 0
                     /\ tcpm_pps_data.stage = "AVAILABLE"
                     /\ wlc_pps_data.stage = "AVAILABLE"
                     /\ g1.tcpm.stage = "ACTIVE" /\ g1.wlc.stage = "ACTIVE"
                     /\ in.tw.pps_ui >= 0 /\ in.ww.pps_ui >= 0)
                    => g1.pps_index = PPS_INDEX_TCPM

\* C33 (as stated): a run of the negotiation task in which gcpm_pps_work
\* finds the selected session gone and no other Active (pps_index from
\* non-zero to 0) clears dc_index, whatever the session time is
C33_Original ==
    DetectRun
      => \A in \in PpsWorkInputs :
            (pps_index # 0
               /\ gcpm_pps_work(Gcpm, in.tw, in.ww).pps_index = 0)
              => RunPps(in).g.dc_index <= 0

\* C34 (as stated): the stage of a PPS session that is NotSupported
\* changes only in the run of the selection task that starts a session
\* (DC_IDLE to DC_ENABLE_PASSTHROUGH)
C34_Original ==
    [][(\/ (tcpm_pps_data.stage = "NOTSUPP"
               /\ tcpm_pps_data'.stage # "NOTSUPP")
        \/ (wlc_pps_data.stage = "NOTSUPP"
               /\ wlc_pps_data'.stage # "NOTSUPP"))
         => /\ SelectStep
            /\ dc_state = DC_IDLE
            /\ dc_state' = DC_ENABLE_PASSTHROUGH]_vars

----------------------------------------------------------------------------
\* The states of the DC session (checked under Spec)

\* C35: with no debug write, dc_state is never DC_RUNNING, whatever the
\* selection task, the negotiation task, the demand calls and the
\* notifications do and whichever collaborator calls fail
C35_NoRunning == dc_state # DC_RUNNING

\* C35 witness: a handover has succeeded and the session is in
\* DC_PASSTHROUGH with the DC source active
C35_Witness ==
    /\ LastPps({"handover"})
    /\ dc_state = DC_PASSTHROUGH
    /\ chg_psy_active = GCPM_INDEX_DC_ENABLE /\ dc_vote

----------------------------------------------------------------------------
\* Start-up on its own: the probe has queued gcpm_init_work, which runs
\* when its timer expires and queues itself again; each run finds any
\* subset of the collaborators.  The workqueue runs a work that is due and
\* a pending timer expires.

\* no session is under way: the session clock is left out
InitTick == Tick /\ elap' = elap

NextInit == InitWork \/ InitTick

FairInit == WF_vars(InitWork) /\ WF_vars(InitTick)

SpecInit == InitBoot /\ [][NextInit]_vars /\ FairInit

\* what bounds the runs of gcpm_init_work: the two counters and the PPS
\* sources still looked for
InitMeasure ==
    chg_psy_retries + log_psy_ratelimit
      + (IF tcpm_phandle /\ ~tcpm_psy THEN 1 ELSE 0)
      + (IF wlc_dc_name /\ ~wlc_dc_psy THEN 1 ELSE 0)

\* a run of gcpm_init_work
InitStep == init_work = 0 /\ last'.op = "init_work"

\* C36: every run of gcpm_init_work that queues itself again lowers
\* InitMeasure, so it runs a bounded number of times; start-up eventually
\* stops with dc_init_complete set and the task not queued; a run never
\* clears init_complete, loses a source it had found or looks again for a
\* PPS source it has
C36_StartupTerminates ==
    /\ [][InitStep =>
            /\ init_work' # -1 => InitMeasure' < InitMeasure
            /\ init_work' = -1 => dc_init_complete'
            /\ init_complete => init_complete'
            /\ \A i \in 0..1 : chg_psy_avail[i] => chg_psy_avail'[i]
            /\ tcpm_psy => (tcpm_psy' /\ tcpm_pps_data' = tcpm_pps_data)
            /\ wlc_dc_psy => (wlc_dc_psy' /\ wlc_pps_data' = wlc_pps_data)]_vars
    /\ <>[](init_work = -1 /\ dc_init_complete)

\* C36 witness: start-up has stopped after the retries for a PPS source
\* ran out
C36_Witness ==
    /\ last.op = "init_work"
    /\ init_work = -1 /\ dc_init_complete
    /\ log_psy_ratelimit = 0 /\ chg_psy_retries = 0

----------------------------------------------------------------------------
\* Invariants of the DC session (checked under Spec, whose states are the
\* points where chg_psy_lock is free)

\* C37: with no debug write, no PPS session is selected while dc_state is
\* DC_IDLE or DC_DISABLED
C37_IdleNoPps ==
    dc_state \in {DC_IDLE, DC_DISABLED} => pps_index = 0

\* C37 witness: a session was stopped under taper_control and ended in
\* DC_DISABLED with no PPS session selected
C37_Witness ==
    /\ LastPps({"stop_done"})
    /\ dc_state = DC_DISABLED /\ dc_index = -1
    /\ pps_index = 0
    /\ chg_psy_active = GCPM_DEFAULT_CHARGER

\* C38: with no debug write, the DC vote is on only in DC_PASSTHROUGH
C38_VoteOnlyPassthrough == dc_vote => dc_state = DC_PASSTHROUGH

\* C38 witness: the vote could not be withdrawn, the tear-down stopped
\* there and the session is still in DC_PASSTHROUGH with the vote on
C38_Witness ==
    /\ LastPps({"retry_disable"}) /\ LastFailed("MODE_VOTE")
    /\ dc_vote /\ dc_state = DC_PASSTHROUGH

\* C39: a run of the selection task with taper_control not set whose
\* gcpm_chg_select returns a negative value changes nothing of the session
\* (dc_state, dc_index, pps_index, the PPS sessions, the active source,
\* the DC vote, the negotiation task) and queues itself again after 5
\* seconds
C39_RetryFrame ==
    [][SelectStep =>
         /\ ~taper_control =>
               \A v \in VBattReadings :
                  gcpm_chg_select(v) < 0 =>
                     LET r == gcpm_chg_select_work(Gcpm, gcpm_chg_select(v))
                     IN /\ r.branch = "again"
                        /\ r.g = Gcpm
                        /\ r.select_ms = 5000 /\ r.pps_ms = -1
         /\ last'.branch = "again" =>
               /\ ~taper_control
               /\ \E v \in VBattReadings : gcpm_chg_select(v) < 0
               /\ select_work' = 5000
               /\ UNCHANGED <<dc_state, dc_index, pps_index, tcpm_pps_data,
                              wlc_pps_data, chg_psy_active, psy_online,
                              dc_vote, pps_work, pps_run, elap>>]_vars

\* C39 witness: a run of the selection task in DC_PASSTHROUGH read a
\* battery voltage below vbatt_low and left the session running
C39_Witness ==
    /\ last.op = "select_work" /\ last.branch = "again"
    /\ dc_state = DC_PASSTHROUGH /\ dc_index = GCPM_INDEX_DC_ENABLE
    /\ chg_psy_active = GCPM_INDEX_DC_ENABLE /\ dc_vote
    /\ select_work = 5000

----------------------------------------------------------------------------
\* max77779_sp.c: the scratch space.  Each caller runs max77779_sp_read or
\* max77779_sp_write step by step: max77779_sp_info, mutex_lock, the range
\* check and the page-select write of max77779_sp_rd/_wr, the data access
\* (a one-byte write reads the register and then writes it), mutex_unlock.

\* max77779_sp_info(): the return value and the address of the tag
max77779_sp_info(tag, size) ==
    LET len == CASE tag = "RS32" -> OPCODE_USER_SPACE_R_RES_LEN
                 [] tag = "RSBM" -> RS_TAG_LENGTH
                 [] tag = "RSBR" -> RS_TAG_LENGTH
                 [] tag = "SUFG" -> SU_TAG_LENGTH
                 [] OTHER -> -1
        addr == CASE tag = "RS32" -> RSBM_ADDR
                  [] tag = "RSBM" -> RSBM_ADDR
                  [] tag = "RSBR" -> RSBR_ADDR
                  [] tag = "SUFG" -> SUFG_ADDR
                  [] OTHER -> 0
    IN IF len < 0 THEN [ret |-> -ENOENT, addr |-> 0]
       ELSE IF size # 0 /\ size > len THEN [ret |-> -EINVAL, addr |-> 0]
       ELSE [ret |-> 0, addr |-> addr]

\* the range check at the head of max77779_sp_rd() and max77779_sp_wr()
sp_range_ok(addr, count) ==
    ~((count > 2 /\ count % 2 = 1) \/ ((addr % 256) + count > 127))

\* variant: mutex_lock() does not wait for page_lock
page_lock_ignored(owner) == TRUE

\* mutex_lock(&data->page_lock) returns: the mutex is free
page_lock_free(owner) == owner = 0

\* a caller enters max77779_sp_read or max77779_sp_write: max77779_sp_info
\* either makes the call return or lets it go on to mutex_lock
SpEnter ==
    /\ \E c \in SpCallers, op \in {"read", "write"}, tag \in SpTags,
          size \in SpSizes :
         /\ sp.call[c].pc \in {"idle", "done"}
         /\ LET info == max77779_sp_info(tag, size)
            IN sp' = [sp EXCEPT !.call[c] =
                        [pc |-> IF info.ret < 0 THEN "done" ELSE "lock",
                         op |-> op, tag |-> tag, size |-> size,
                         addr |-> info.addr, ret |-> info.ret, regs |-> 0,
                         torn |-> FALSE]]
    /\ UNCHANGED <<sp_frame, chg_psy_lock, pc, last, init_complete,
                   resume_complete>>

\* mutex_lock returns and the range check is made
SpLock ==
    /\ \E c \in SpCallers :
         /\ sp.call[c].pc = "lock"
         /\ page_lock_free(sp.page_lock)
         /\ sp' = [sp EXCEPT
                     !.page_lock = c,
                     !.call[c].pc =
                        IF sp_range_ok(sp.call[c].addr, sp.call[c].size)
                        THEN "page" ELSE "unlock",
                     !.call[c].ret =
                        IF sp_range_ok(sp.call[c].addr, sp.call[c].size)
                        THEN 0 ELSE -ERANGE]
    /\ UNCHANGED <<sp_frame, chg_psy_lock, pc, last, init_complete,
                   resume_complete>>

\* regmap_write(regmap, MAX77779_SP_PAGE_CTRL, page)
SpPage ==
    /\ \E c \in SpCallers, ok \in BOOLEAN :
         /\ sp.call[c].pc = "page"
         /\ LET cl == sp.call[c]
                next == IF ~ok THEN "unlock"
                        ELSE IF cl.size = 0 /\ cl.op = "read" THEN "unlock"
                        ELSE "data"
            IN sp' = [sp EXCEPT
                        !.page_ctrl = IF ok THEN cl.addr \div 256 ELSE @,
                        !.page_by = IF ok THEN c ELSE @,
                        !.call[c].regs = @ + 1,
                        !.call[c].ret = IF ok THEN 0 ELSE -EIO,
                        !.call[c].pc = next]
    /\ UNCHANGED <<sp_frame, chg_psy_lock, pc, last, init_complete,
                   resume_complete>>

\* the data access: regmap_bulk_read/_write, regmap_read or regmap_write;
\* a one-byte write is a regmap_read followed by a regmap_write
SpData ==
    /\ \E c \in SpCallers, ok \in BOOLEAN :
         /\ sp.call[c].pc \in {"data", "data2"}
         /\ LET cl == sp.call[c]
                rmw == cl.op = "write" /\ cl.size = 1 /\ cl.pc = "data"
            IN sp' = [sp EXCEPT
                        !.call[c].regs = @ + 1,
                        !.call[c].torn =
                           @ \/ sp.page_by # c
                             \/ sp.page_ctrl # cl.addr \div 256,
                        !.call[c].ret = IF ok THEN 0 ELSE -EIO,
                        !.call[c].pc = IF ok /\ rmw THEN "data2"
                                       ELSE "unlock"]
    /\ UNCHANGED <<sp_frame, chg_psy_lock, pc, last, init_complete,
                   resume_complete>>

\* mutex_unlock(&data->page_lock) and the return of the call
SpUnlock ==
    /\ \E c \in SpCallers :
         /\ sp.call[c].pc = "unlock"
         /\ sp' = [sp EXCEPT !.page_lock = 0, !.call[c].pc = "done"]
    /\ UNCHANGED <<sp_frame, chg_psy_lock, pc, last, init_complete,
                   resume_complete>>

NextSp == SpEnter \/ SpLock \/ SpPage \/ SpData \/ SpUnlock

SpecSp == Init /\ [][NextSp]_vars

\* the length of a tag, -1 for a tag the device does not hold
SpTagLength(tag) ==
    CASE tag = "RS32" -> OPCODE_USER_SPACE_R_RES_LEN
      [] tag \in {"RSBM", "RSBR"} -> RS_TAG_LENGTH
      [] tag = "SUFG" -> SU_TAG_LENGTH
      [] OTHER -> -1

\* C40: the calls of max77779_sp_read and max77779_sp_write are serialized
\* by page_lock: a call past mutex_lock holds it, every data access is made
\* under the page the same call selected, and a call with an unknown tag or
\* a size above the length of its tag has returned an error without any
\* register access
C40_PageSerialized ==
    \A c \in SpCallers :
       LET cl == sp.call[c]
       IN /\ ~cl.torn
          /\ cl.pc \in {"page", "data", "data2", "unlock"}
                => sp.page_lock = c
          /\ cl.pc \in {"data", "data2"}
                => (sp.page_by = c /\ sp.page_ctrl = cl.addr \div 256)
          /\ (cl.pc # "idle"
                /\ (SpTagLength(cl.tag) < 0 \/ cl.size > SpTagLength(cl.tag)))
                => (cl.pc = "done" /\ cl.ret < 0 /\ cl.regs = 0)

\* C40 witness: one caller is between the two register accesses of a
\* one-byte write while the other waits in mutex_lock, after a call of
\* the first one was refused
C40_Witness ==
    \E c, d \in SpCallers :
       /\ c # d
       /\ sp.call[c].pc = "data2" /\ sp.call[c].regs = 2
       /\ sp.call[d].pc = "lock"
       /\ sp.page_lock = c /\ sp.page_by = c
====
